---- MODULE Spec2Model ----
(***************************************************************************)
(* A model of the per-neighbor session core of gobgp (server/peer.go):     *)
(* the supervisor loop of one Peer, its message handlers, the route        *)
(* pipeline (policy, Adj-RIB, sibling fan-out) and the connect loop.       *)
(*                                                                         *)
(* Spec      the supervisor of one peer with its environment (FSM driver,  *)
(*           parent server, siblings); channel sends are single steps.     *)
(* ConcSpec  the tasks of one session (supervisor, connect loop, FSM       *)
(*           handler, parent's Stop) at the grain of their blocking        *)
(*           operations, under fairness of every task.                     *)
(* PolSpec   applyPolicies and the two policy filters as pure functions.   *)
(***************************************************************************)
EXTENDS Integers, Sequences, FiniteSets, TLC

\* ------------------------------------------------------------------ bounds
\* capacity given to every buffered channel of the model; stands for
\* FSM_CHANNEL_LENGTH (1024) of the source
MaxChan == 1
\* longest path list carried by one inbound UPDATE or sibling PATH message
MaxPathList == 2
\* longest policy chain
MaxChain == 2
\* most events waiting in `incoming`
MaxQueue == 2

\* --------------------------------------------------------------- constants
\* bgp.BGP_ERROR_CEASE and its subcodes, bgp.BGP_ERROR_UPDATE_MESSAGE_ERROR
BGP_ERROR_CEASE == 6
BGP_ERROR_UPDATE_MESSAGE_ERROR == 3
BGP_ERROR_SUB_ADMINISTRATIVE_SHUTDOWN == 2
BGP_ERROR_SUB_PEER_DECONFIGURED == 3
BGP_ERROR_SUB_ADMINISTRATIVE_RESET == 4
BGP_ERROR_SUB_MALFORMED_AS_PATH == 11
\* the error a decoder reports for a message of a bad length
BGP_ERROR_MESSAGE_HEADER_ERROR == 1
BGP_ERROR_SUB_BAD_MESSAGE_LENGTH == 2

\* ------------------------------------------------------------------- types
BGP_FSM_IDLE == "IDLE"
BGP_FSM_ACTIVE == "ACTIVE"
BGP_FSM_OPENSENT == "OPENSENT"
BGP_FSM_OPENCONFIRM == "OPENCONFIRM"
BGP_FSM_ESTABLISHED == "ESTABLISHED"
FSMStates ==
    {BGP_FSM_IDLE, BGP_FSM_ACTIVE, BGP_FSM_OPENSENT, BGP_FSM_OPENCONFIRM,
     BGP_FSM_ESTABLISHED}

RF_IPv4_UC == "ipv4-unicast"
RF_IPv6_UC == "ipv6-unicast"
Families == {RF_IPv4_UC, RF_IPv6_UC}
\* a family that a remote may advertise and no modelled peer configures
RF_IPv4_VPN == "l3vpn-ipv4-unicast"

BGP_CAP_ROUTE_REFRESH == "ROUTE_REFRESH"
BGP_CAP_FOUR_OCTET_AS_NUMBER == "FOUR_OCTET_AS_NUMBER"
Capabilities == {BGP_CAP_ROUTE_REFRESH, BGP_CAP_FOUR_OCTET_AS_NUMBER}

\* addresses: the neighbor of the modelled peer, the local end of its
\* transport, and the two sibling peers
NeighborAddress == "192.0.2.1"
LocalAddress == "192.0.2.254"
Sibling1 == "192.0.2.2"
Sibling2 == "192.0.2.3"
AllSiblings == {Sibling1, Sibling2}

\* one NLRI per route family
NlriOf(rf) == IF rf = RF_IPv4_UC THEN "10.7.0.0/24" ELSE "2001:db8::/32"

NoAttr == "none"

\* table.Path: (route family, NLRI, nexthop, isWithdraw, origin PeerInfo) and
\* one abstract attribute that a policy action may rewrite
MkPath(rf, nh, wd, src) ==
    [rf |-> rf, nlri |-> NlriOf(rf), nexthop |-> nh, withdraw |-> wd,
     source |-> src, attr |-> NoAttr]

\* the PeerInfo of the modelled peer is identified by its address
PeerInfo == NeighborAddress

\* ---------------------------------------------------------------- helpers
SeqToSet(s) == {s[i] : i \in 1..Len(s)}

RECURSIVE SelectSeqBy(_, _)
\* the subsequence of s whose elements are in the set keep
SelectSeqBy(s, keep) ==
    IF s = <<>> THEN <<>>
    ELSE IF Head(s) \in keep
         THEN <<Head(s)>> \o SelectSeqBy(Tail(s), keep)
         ELSE SelectSeqBy(Tail(s), keep)

RECURSIVE Flatten(_)
Flatten(ss) == IF ss = <<>> THEN <<>> ELSE Head(ss) \o Flatten(Tail(ss))

\* the sequences over S of length lo..hi
SeqsOf(S, lo, hi) == UNION {[1..n -> S] : n \in lo..hi}

\* the orders in which a Go map with key set S may be ranged over
Orders(S) ==
    {o \in [1..Cardinality(S) -> S] : \A i, j \in 1..Cardinality(S) :
        i # j => o[i] # o[j]}

\* ----------------------------------------------------------------- policy
ROUTE_TYPE_ACCEPT == "ACCEPT"
ROUTE_TYPE_REJECT == "REJECT"
DEFAULT_POLICY_TYPE_ACCEPT_ROUTE == "ACCEPT_ROUTE"
DEFAULT_POLICY_TYPE_REJECT_ROUTE == "REJECT_ROUTE"
DefaultPolicyTypes ==
    {DEFAULT_POLICY_TYPE_ACCEPT_ROUTE, DEFAULT_POLICY_TYPE_REJECT_ROUTE}

\* policy.Policy: a condition (the NLRIs it matches), an action, and the
\* attribute value its action writes into the path (NoAttr: no modification)
MkPolicy(name, prefixSet, action, setAttr) ==
    [name |-> name, prefixSet |-> prefixSet, action |-> action,
     setAttr |-> setAttr]
PolRejectV4 ==
    MkPolicy("reject-v4", {NlriOf(RF_IPv4_UC)}, ROUTE_TYPE_REJECT, NoAttr)
PolAcceptV4 ==
    MkPolicy("accept-v4", {NlriOf(RF_IPv4_UC)}, ROUTE_TYPE_ACCEPT, "med-100")
PolAcceptAll ==
    MkPolicy("accept-all", {NlriOf(RF_IPv4_UC), NlriOf(RF_IPv6_UC)},
             ROUTE_TYPE_ACCEPT, "lp-200")
PolRejectV6 ==
    MkPolicy("reject-v6", {NlriOf(RF_IPv6_UC)}, ROUTE_TYPE_REJECT, NoAttr)
Policies == {PolRejectV4, PolAcceptV4, PolAcceptAll, PolRejectV6}

\* (*policy.Policy).Apply: (matched, action, newpath)
PolicyApply(pol, path) ==
    [result |-> path.nlri \in pol.prefixSet,
     action |-> pol.action,
     newpath |-> IF pol.setAttr = NoAttr THEN path
                 ELSE [path EXCEPT !.attr = pol.setAttr]]

\* the nil *table.Path
NilPath == [nil |-> TRUE]

RECURSIVE applyPoliciesFrom(_, _, _)
\* the loop of applyPolicies, n policies having been consulted so far
applyPoliciesFrom(policies, original, n) ==
    IF policies = <<>>
    THEN [applied |-> FALSE, path |-> original, consulted |-> n]
    ELSE LET r == PolicyApply(Head(policies), original)
         IN  IF r.result
             THEN IF r.action = ROUTE_TYPE_REJECT
                  THEN [applied |-> TRUE, path |-> NilPath, consulted |-> n + 1]
                  ELSE [applied |-> TRUE, path |-> r.newpath,
                        consulted |-> n + 1]
             ELSE applyPoliciesFrom(Tail(policies), original, n + 1)

\* a mutant: a REJECT match does not end the loop (the return is missing)
RECURSIVE applyPoliciesRejectContinues(_, _)
applyPoliciesRejectContinues(policies, original) ==
    IF policies = <<>>
    THEN [applied |-> FALSE, path |-> original, consulted |-> 0]
    ELSE LET r == PolicyApply(Head(policies), original)
             rest == applyPoliciesRejectContinues(Tail(policies), original)
         IN  IF r.result /\ r.action # ROUTE_TYPE_REJECT
             THEN [applied |-> TRUE, path |-> r.newpath, consulted |-> 1]
             ELSE [rest EXCEPT !.consulted = 1 + rest.consulted]

\* applyPolicies: (applied, newPath), and the number of policies whose Apply
\* was called
applyPolicies(policies, original) == applyPoliciesFrom(policies, original, 0)

\* the verdict of one filter step: the paths appended and the Apply calls made
KeepStep(kept, consulted) == [kept |-> kept, consulted |-> consulted]

\* a mutant: the default verdict is consulted for an empty chain too
exportStepDefaultOnEmpty(p, policies, defaultExportPolicy) ==
    IF p.withdraw THEN KeepStep(<<p>>, 0)
    ELSE LET r == applyPolicies(policies, p)
         IN  IF r.applied
             THEN KeepStep(IF r.path # NilPath THEN <<r.path>> ELSE <<>>,
                           r.consulted)
             ELSE KeepStep(
                    IF defaultExportPolicy = DEFAULT_POLICY_TYPE_ACCEPT_ROUTE
                    THEN <<p>> ELSE <<>>, r.consulted)

\* one iteration of the export loop of sendUpdateMsgFromPaths
exportStep(p, policies, defaultExportPolicy) ==
    IF p.withdraw THEN KeepStep(<<p>>, 0)
    ELSE IF Len(policies) # 0
    THEN LET r == applyPolicies(policies, p)
         IN  IF r.applied
             THEN KeepStep(IF r.path # NilPath THEN <<r.path>> ELSE <<>>,
                           r.consulted)
             ELSE KeepStep(
                    IF defaultExportPolicy = DEFAULT_POLICY_TYPE_ACCEPT_ROUTE
                    THEN <<p>> ELSE <<>>, r.consulted)
    ELSE KeepStep(<<p>>, 0)

\* a mutant: a path the chain rejects is kept as it came
importStepRejectKeeps(p, policies, defaultImportPolicy) ==
    IF ~p.withdraw /\ Len(policies) # 0
    THEN LET r == applyPolicies(policies, p)
         IN  IF r.applied
             THEN KeepStep(IF r.path # NilPath THEN <<r.path>> ELSE <<p>>,
                           r.consulted)
             ELSE KeepStep(
                    IF defaultImportPolicy = DEFAULT_POLICY_TYPE_ACCEPT_ROUTE
                    THEN <<p>> ELSE <<>>, r.consulted)
    ELSE KeepStep(<<p>>, 0)

\* one iteration of the import loop of handlePeerMsg (PEER_MSG_PATH)
importStep(p, policies, defaultImportPolicy) ==
    IF ~p.withdraw
    THEN IF Len(policies) # 0
         THEN LET r == applyPolicies(policies, p)
              IN  IF r.applied
                  THEN KeepStep(IF r.path # NilPath THEN <<r.path>> ELSE <<>>,
                                r.consulted)
                  ELSE KeepStep(
                         IF defaultImportPolicy = DEFAULT_POLICY_TYPE_ACCEPT_ROUTE
                         THEN <<p>> ELSE <<>>, r.consulted)
         ELSE KeepStep(<<p>>, 0)
    ELSE KeepStep(<<p>>, 0)

RECURSIVE exportFilter(_, _, _)
\* the export loop: the accepted paths in order, and the Apply calls made
exportFilter(pList, policies, defaultExportPolicy) ==
    IF pList = <<>> THEN KeepStep(<<>>, 0)
    ELSE LET h == exportStep(Head(pList), policies, defaultExportPolicy)
             t == exportFilter(Tail(pList), policies, defaultExportPolicy)
         IN  KeepStep(h.kept \o t.kept, h.consulted + t.consulted)

RECURSIVE importFilter(_, _, _)
\* the import loop: the accepted paths in order, and the Apply calls made
importFilter(pList, policies, defaultImportPolicy) ==
    IF pList = <<>> THEN KeepStep(<<>>, 0)
    ELSE LET h == importStep(Head(pList), policies, defaultImportPolicy)
             t == importFilter(Tail(pList), policies, defaultImportPolicy)
         IN  KeepStep(h.kept \o t.kept, h.consulted + t.consulted)

\* --------------------------------------------------------------- messages
MkUpdate(path) == [type |-> "UPDATE", path |-> path, as4 |-> TRUE]
\* bgp.NewBGPNotificationMessage
NewBGPNotificationMessage(code, subcode) ==
    [type |-> "NOTIFICATION", code |-> code, subcode |-> subcode]
\* table.UpdatePathAttrs2ByteAs
UpdatePathAttrs2ByteAs(m) == [m EXCEPT !.as4 = FALSE]

RECURSIVE CreateUpdateMsgFromPaths(_)
\* table.CreateUpdateMsgFromPaths: one UPDATE per path, in order
CreateUpdateMsgFromPaths(pathList) ==
    IF pathList = <<>> THEN <<>>
    ELSE <<MkUpdate(Head(pathList))>> \o CreateUpdateMsgFromPaths(Tail(pathList))

PEER_MSG_PATH == "PEER_MSG_PATH"
PEER_MSG_PEER_DOWN == "PEER_MSG_PEER_DOWN"
MkPeerMsg(msgType, msgData) == [msgType |-> msgType, msgData |-> msgData]

\* a send the running handler has still to perform: on `outgoing` or on the
\* mailbox of a sibling
OUTGOING == "outgoing"
MkSend(ch, msg) == [ch |-> ch, msg |-> msg]

\* ---------------------------------------------------------------- Adj-RIB
NoPath == [none |-> TRUE]
EmptyRib == [rf \in Families |-> NoPath]

RECURSIVE AdjRibUpdate(_, _)
\* (*table.AdjRib).UpdateIn / UpdateOut: in list order, a withdrawal deletes
\* the entry of its NLRI and any other path replaces it
AdjRibUpdate(rib, pathList) ==
    IF pathList = <<>> THEN rib
    ELSE LET p == Head(pathList)
         IN  AdjRibUpdate(
               [rib EXCEPT ![p.rf] = IF p.withdraw THEN NoPath ELSE p],
               Tail(pathList))

\* (*table.AdjRib).GetInPathList / GetOutPathList
AdjRibPathList(rib, rf) ==
    IF rf \in DOMAIN rib /\ rib[rf] # NoPath THEN <<rib[rf]>> ELSE <<>>

\* (*table.AdjRib).DropAllIn
DropAllIn(rib, rf) == [rib EXCEPT ![rf] = NoPath]

RECURSIVE DropAllInList(_, _)
DropAllInList(rib, rfList) ==
    IF rfList = <<>> THEN rib
    ELSE DropAllInList(DropAllIn(rib, Head(rfList)), Tail(rfList))

\* ------------------------------------------------------------- shared RIB
\* table.TableManager: per destination the known paths, one per origin
EmptyTable == [rf \in Families |-> {}]

\* the decision process: the known path of the lowest origin address
BestPath(known) ==
    IF known = {} THEN NoPath
    ELSE CHOOSE p \in known :
           \A q \in known : p.source = Sibling1 \/ q.source # Sibling1

RECURSIVE TableInsert(_, _)
TableInsert(tbl, pathList) ==
    IF pathList = <<>> THEN tbl
    ELSE LET p == Head(pathList)
             others == {q \in tbl[p.rf] : q.source # p.source}
         IN  TableInsert(
               [tbl EXCEPT ![p.rf] = IF p.withdraw THEN others
                                     ELSE others \cup {p}],
               Tail(pathList))

\* the best-path change of one destination between two tables
BestChange(old, new, rf) ==
    LET ob == BestPath(old[rf])
        nb == BestPath(new[rf])
    IN  IF nb = ob THEN <<>>
        ELSE IF nb = NoPath THEN <<[ob EXCEPT !.withdraw = TRUE]>>
        ELSE <<nb>>

\* the route families in a fixed order
RfOrder == <<RF_IPv4_UC, RF_IPv6_UC>>

\* (*table.TableManager).ProcessPaths: the new table and the best-path changes
ProcessPaths(tbl, pathList) ==
    LET new == TableInsert(tbl, pathList)
        touched == {pathList[i].rf : i \in 1..Len(pathList)}
    IN  [rib |-> new,
         paths |-> Flatten([i \in 1..Len(RfOrder) |->
                     IF RfOrder[i] \in touched
                     THEN BestChange(tbl, new, RfOrder[i]) ELSE <<>>])]

\* (*table.TableManager).DeletePathsforPeer
DeletePathsforPeer(tbl, peerInfo, rf) ==
    LET new == [tbl EXCEPT ![rf] = {q \in tbl[rf] : q.source # peerInfo}]
    IN  [rib |-> new, paths |-> BestChange(tbl, new, rf)]

\* ---------------------------------------------------------- configuration
\* config.Neighbor and the arguments of NewPeer that the session reads
MkConfig(afiSafiList, passive, rsClient, global, inNames, exNames, defIn, defEx) ==
    [AfiSafiList |-> afiSafiList, PassiveMode |-> passive,
     RouteServerClient |-> rsClient, isGlobalRib |-> global,
     External |-> FALSE, HoldTime |-> 90,
     ImportPolicies |-> inNames, ExportPolicies |-> exNames,
     DefaultImportPolicy |-> defIn, DefaultExportPolicy |-> defEx]

\* a route-server client that dials out, with import and export policy
RsClientConfig ==
    MkConfig(<<RF_IPv4_UC, RF_IPv6_UC>>, FALSE, TRUE, FALSE,
             <<"reject-v6">>, <<"reject-v4", "no-such-policy">>,
             DEFAULT_POLICY_TYPE_ACCEPT_ROUTE, DEFAULT_POLICY_TYPE_ACCEPT_ROUTE)
\* a passive peer that is no route-server client, without policy
PlainConfig ==
    MkConfig(<<RF_IPv4_UC, RF_IPv6_UC>>, TRUE, FALSE, FALSE, <<>>, <<>>,
             DEFAULT_POLICY_TYPE_ACCEPT_ROUTE, DEFAULT_POLICY_TYPE_ACCEPT_ROUTE)
\* the global-RIB pseudo-peer
GlobalRibConfig ==
    MkConfig(<<RF_IPv4_UC, RF_IPv6_UC>>, TRUE, FALSE, TRUE, <<>>, <<>>,
             DEFAULT_POLICY_TYPE_ACCEPT_ROUTE, DEFAULT_POLICY_TYPE_ACCEPT_ROUTE)
Configs == {RsClientConfig, PlainConfig, GlobalRibConfig}
\* the configurations whose route pipeline Spec explores
SessionConfigs == {PlainConfig, GlobalRibConfig}

\* the policy maps the server may hand to setPolicy: name -> policy
PolicyNames == {pol.name : pol \in Policies}
PolicyByName(name) == CHOOSE pol \in Policies : pol.name = name
FullPolicyMap == PolicyNames
EmptyPolicyMap == {}
PolicyMaps == {FullPolicyMap, EmptyPolicyMap}

RECURSIVE ResolvePolicies(_, _)
\* one loop of setPolicy: the configured names found in policyMap, in order
ResolvePolicies(names, policyMap) ==
    IF names = <<>> THEN <<>>
    ELSE (IF Head(names) \in policyMap THEN <<PolicyByName(Head(names))>>
          ELSE <<>>) \o ResolvePolicies(Tail(names), policyMap)

\* ------------------------------------------------------------------ state
VARIABLES
    cfg,             \* peerConfig, isGlobalRib (fixed at NewPeer)
    state,           \* peerConfig.BgpNeighborCommonState.State
    rfMap,           \* peer.rfMap: the set of its keys
    capMap,          \* peer.capMap: the set of its keys
    adjRibIn,        \* peer.adjRib, IN side
    adjRibOut,       \* peer.adjRib, OUT side
    rib,             \* peer.rib
    siblings,        \* peer.siblings: the set of its keys
    importPolicies,  \* peer.importPolicies
    exportPolicies,  \* peer.exportPolicies
    outgoing,        \* len(peer.outgoing): the messages waiting in the channel
    peerMsgCh,       \* per sibling, the messages waiting in its peerMsgCh
    pc,              \* where loop() is
    sendq,           \* the channel sends the running handler has still to do
    dying,           \* peer.t: the tomb has been killed
    connLoop,        \* where connectLoop() is
    connCh,          \* peer.connCh: "open" or "closed"
    handler,         \* h of loop(): "nil", "running" or "stopped"
    ticker,          \* the ticker of connectLoop() is running
    passPc,          \* where the caller of PassConn() is
    stopPc,          \* where the caller of Stop() is
    polIn,           \* the arguments of a policy function under test
    polOut,          \* its result
    now,             \* the wall clock, in ticks
    uptime,          \* fsm.peerConfig.BgpNeighborCommonState.Uptime, in seconds
    flops,           \* fsm.peerConfig.BgpNeighborCommonState.Flops
    establishedCount,   \* ...BgpNeighborCommonState.EstablishedCount
    negotiatedHoldTime, \* peer.fsm.negotiatedHoldTime
    adminState,      \* peer.fsm.adminState
    adminStateCh,    \* peer.fsm.adminStateCh: the tokens waiting in it
    restResult,      \* the "result" of the last response of handleREST
    remoteOpen,      \* the OPEN the remote has sent in the current session
    advertised,      \* the NLRIs announced on `outgoing` in the current
                     \* session and not withdrawn there since
    incoming,        \* `incoming` of loop(): the events of the FSM handler
    mesh             \* per peer of a mesh, its mailbox and its supervisor

sessionVars ==
    <<cfg, state, rfMap, capMap, adjRibIn, adjRibOut, rib, siblings,
      importPolicies, exportPolicies, outgoing, peerMsgCh, pc, sendq>>
concVars == <<dying, connLoop, connCh, handler, ticker, stopPc, passPc>>
polVars == <<polIn, polOut>>
counterVars ==
    <<now, uptime, flops, establishedCount, negotiatedHoldTime, adminState,
      adminStateCh, restResult, remoteOpen>>
statVars == <<counterVars, advertised, incoming>>
vars == <<sessionVars, concVars, polVars, statVars, mesh>>

\* configuredRFlist
configuredRFlist == cfg.AfiSafiList

\* ----------------------------------------------------------------- egress
RECURSIVE sendMessagesLoop(_, _, _)
sendMessagesLoop(msgs, st, caps) ==
    IF msgs = <<>> THEN <<>>
    ELSE LET m == Head(msgs)
             rest == sendMessagesLoop(Tail(msgs), st, caps)
         IN  IF st # BGP_FSM_ESTABLISHED THEN rest
             ELSE <<MkSend(OUTGOING,
                      IF BGP_CAP_FOUR_OCTET_AS_NUMBER \notin caps
                      THEN UpdatePathAttrs2ByteAs(m) ELSE m)>> \o rest

\* sendMessages: the sends on `outgoing` it performs
sendMessages(msgs) == sendMessagesLoop(msgs, state, capMap)

\* a mutant: the loop over the siblings ends after its first iteration
sendPathsToSiblingsFirstOnly(pathList, order) ==
    IF Len(pathList) = 0 \/ Len(order) = 0 THEN <<>>
    ELSE <<MkSend(order[1], MkPeerMsg(PEER_MSG_PATH, pathList))>>

\* sendPathsToSiblings: one PATH message to every sibling, in the order the
\* sibling map is ranged over
sendPathsToSiblings(pathList, order) ==
    IF Len(pathList) = 0 THEN <<>>
    ELSE [i \in 1..Len(order) |->
            MkSend(order[i], MkPeerMsg(PEER_MSG_PATH, pathList))]

\* table.CloneAndUpdatePathAttrs: the nexthop becomes the local address towards
\* an external peer that is no route-server client, and stays as it is towards
\* a route-server client and an internal peer
CloneAndUpdatePathAttrs(pList) ==
    [i \in 1..Len(pList) |->
        IF cfg.RouteServerClient \/ ~cfg.External \/ pList[i].withdraw
        THEN pList[i]
        ELSE [pList[i] EXCEPT !.nexthop = LocalAddress]]

\* the egress filter of sendUpdateMsgFromPaths: family negotiated and nexthop
\* not the peer's own address
sendpathList(paths) ==
    SelectSeqBy(paths,
        {p \in SeqToSet(paths) :
            p.rf \in rfMap /\ p.nexthop # NeighborAddress})

\* sendUpdateMsgFromPaths, given the Adj-RIB-Out it starts from: the
\* Adj-RIB-Out it leaves and the sends it performs
sendUpdateMsgFromPaths(pList, out) ==
    LET paths == exportFilter(CloneAndUpdatePathAttrs(pList), exportPolicies,
                              cfg.DefaultExportPolicy).kept
    IN  [adjRibOut |-> AdjRibUpdate(out, paths),
         sends |-> sendMessages(CreateUpdateMsgFromPaths(sendpathList(paths)))]

\* ------------------------------------------------------------- the events
NoErr == [none |-> TRUE]
\* bgp.MessageError
MessageError(code, subcode) == [TypeCode |-> code, SubTypeCode |-> subcode]

\* the routes of an inbound UPDATE: the neighbor announces itself as nexthop
Routes ==
    [rf : Families, nexthop : {NeighborAddress}, withdraw : BOOLEAN]
\* bgp.BGPUpdate: its routes, and the attribute error its decoding left
UpdateBodies ==
    [routes : SeqsOf(Routes, 0, MaxPathList), malformed : {NoErr}]
    \cup [routes : SeqsOf(Routes, 1, 1),
          malformed : {MessageError(BGP_ERROR_UPDATE_MESSAGE_ERROR,
                                    BGP_ERROR_SUB_MALFORMED_AS_PATH)}]

\* bgp.BGPOpen: the families of its multiprotocol capabilities and its other
\* capabilities
OpenBodies ==
    [families : SUBSET (Families \cup {RF_IPv4_VPN}), caps : {{}, Capabilities}]

\* the paths handed over by siblings: those of Sibling1, with itself or, for
\* one family, the modelled peer's neighbor as nexthop
SiblingPaths ==
    {MkPath(rf, Sibling1, wd, Sibling1) : rf \in Families, wd \in BOOLEAN}
    \cup {MkPath(RF_IPv4_UC, NeighborAddress, FALSE, Sibling1)}
\* a PATH message of a sibling names a destination at most once
SiblingPathLists ==
    {l \in SeqsOf(SiblingPaths, 1, MaxPathList) :
        \A i, j \in 1..Len(l) : i # j => l[i].rf # l[j].rf}

\* bgp.ValidateUpdateMsg: a family that was not negotiated is an error without
\* a notification code, a malformed attribute an error with its code
ValidateUpdateMsg(body, rfs) ==
    IF \E i \in 1..Len(body.routes) : body.routes[i].rf \notin rfs
    THEN MessageError(0, 0)
    ELSE body.malformed

\* table.NewProcessMessage(m, peerInfo).ToPathList()
ToPathList(body, peerInfo) ==
    [i \in 1..Len(body.routes) |->
        MkPath(body.routes[i].rf, body.routes[i].nexthop,
               body.routes[i].withdraw, peerInfo)]

\* the transitions the FSM driver reports
FsmNext(st) ==
    CASE st = BGP_FSM_IDLE -> {BGP_FSM_ACTIVE}
      [] st = BGP_FSM_ACTIVE -> {BGP_FSM_OPENSENT, BGP_FSM_IDLE}
      [] st = BGP_FSM_OPENSENT ->
            {BGP_FSM_OPENCONFIRM, BGP_FSM_ACTIVE, BGP_FSM_IDLE}
      [] st = BGP_FSM_OPENCONFIRM -> {BGP_FSM_ESTABLISHED, BGP_FSM_IDLE}
      [] st = BGP_FSM_ESTABLISHED -> {BGP_FSM_IDLE}

\* -------------------------------------------------------------- the loop
\* a channel holds the number of messages waiting in it: what they are is
\* read by the receiver alone (the FSM handler, the sibling)
EmptyMailboxes == [s \in AllSiblings |-> 0]

\* a mutant: the select is entered while sends are still to be done
AtSelectSendsPending == pc = "select"

\* the supervisor is in its select, the previous handler having returned
AtSelect == pc = "select" /\ sendq = <<>>

\* the variables of the other specifications, at rest
ConcIdle ==
    /\ dying = FALSE
    /\ connLoop = "absent"
    /\ connCh = "open"
    /\ handler = "nil"
    /\ ticker = FALSE
    /\ stopPc = "idle"
    /\ passPc = "idle"
NoPol == [none |-> TRUE]
PolIdle == polIn = NoPol /\ polOut = NoPol
NoMesh == [none |-> TRUE]
MeshIdle == mesh = NoMesh
OtherFrame == UNCHANGED <<concVars, polVars, mesh>>

ADMIN_STATE_UP == "ADMIN_STATE_UP"
ADMIN_STATE_DOWN == "ADMIN_STATE_DOWN"
\* no response of handleREST yet
NoResult == "none"
\* no OPEN of the remote in the current session yet
NoOpen == [none |-> TRUE]
\* the statistics, the timers and the administrative state as NewPeer and
\* NewFSM leave them
StatIdle ==
    /\ now = 0
    /\ uptime = 0
    /\ flops = 0
    /\ establishedCount = 0
    /\ negotiatedHoldTime = 0
    /\ adminState = ADMIN_STATE_UP
    /\ adminStateCh = <<>>
    /\ restResult = NoResult
    /\ remoteOpen = NoOpen
    /\ advertised = {}
    /\ incoming = <<>>
\* Spec does not follow the statistics, the timers and the administrative
\* state: StatSpec does
StatFrame == UNCHANGED statVars

\* NewPeer
Init ==
    /\ cfg \in SessionConfigs
    /\ state = BGP_FSM_IDLE
    /\ rfMap = SeqToSet(cfg.AfiSafiList)
    /\ capMap = {}
    /\ adjRibIn = EmptyRib
    /\ adjRibOut = EmptyRib
    /\ rib = EmptyTable
    /\ siblings \in {AllSiblings, {Sibling1}}
    /\ importPolicies = ResolvePolicies(cfg.ImportPolicies, FullPolicyMap)
    /\ exportPolicies = ResolvePolicies(cfg.ExportPolicies, FullPolicyMap)
    /\ outgoing = 0
    /\ peerMsgCh = EmptyMailboxes
    /\ pc = "entry"
    /\ sendq = <<>>
    /\ ConcIdle
    /\ PolIdle
    /\ StatIdle
    /\ MeshIdle

\* a mutant: the replay ends after the first family of rfMap
entryReplayFirstOnly(order) ==
    IF Len(order) = 0 THEN <<>>
    ELSE sendMessages(CreateUpdateMsgFromPaths(
            AdjRibPathList(adjRibOut, order[1])))

\* the replay of Adj-RIB-Out on entering ESTABLISHED, rfMap being ranged over
\* in the given order
entryReplay(order) ==
    Flatten([i \in 1..Len(order) |->
        sendMessages(CreateUpdateMsgFromPaths(
            AdjRibPathList(adjRibOut, order[i])))])

\* the top of loop(): the channels are made anew, then the entry actions of
\* the recorded state
loopEntry ==
    /\ pc = "entry" /\ sendq = <<>>
    /\ outgoing' = 0
    /\ \E order \in Orders(rfMap) :
         sendq' = IF ~cfg.isGlobalRib /\ state = BGP_FSM_ESTABLISHED
                  THEN entryReplay(order) ELSE <<>>
    /\ pc' = "select"
    /\ UNCHANGED <<cfg, state, rfMap, capMap, adjRibIn, adjRibOut, rib,
                   siblings, importPolicies, exportPolicies, peerMsgCh>>
    /\ OtherFrame

\* a channel send of the running handler: it waits while the channel is full
chanSend ==
    /\ sendq # <<>>
    /\ LET h == Head(sendq)
       IN  IF h.ch = OUTGOING
           THEN /\ outgoing < MaxChan
                /\ outgoing' = outgoing + 1
                /\ UNCHANGED peerMsgCh
           ELSE /\ peerMsgCh[h.ch] < MaxChan
                /\ peerMsgCh' = [peerMsgCh EXCEPT ![h.ch] = @ + 1]
                /\ UNCHANGED outgoing
    /\ sendq' = Tail(sendq)
    /\ UNCHANGED <<cfg, state, rfMap, capMap, adjRibIn, adjRibOut, rib,
                   siblings, importPolicies, exportPolicies, pc>>
    /\ OtherFrame

\* the FSM handler of ESTABLISHED takes a message from `outgoing`
fsmSendMessage ==
    /\ pc \in {"select", "dying"}
    /\ state = BGP_FSM_ESTABLISHED /\ ~cfg.isGlobalRib
    /\ outgoing > 0
    /\ outgoing' = outgoing - 1
    /\ UNCHANGED <<cfg, state, rfMap, capMap, adjRibIn, adjRibOut, rib,
                   siblings, importPolicies, exportPolicies, peerMsgCh, pc,
                   sendq>>
    /\ OtherFrame

\* a sibling takes a message from its mailbox
siblingReceive ==
    \E s \in AllSiblings :
        /\ peerMsgCh[s] > 0
        /\ peerMsgCh' = [peerMsgCh EXCEPT ![s] = @ - 1]
        /\ UNCHANGED <<cfg, state, rfMap, capMap, adjRibIn, adjRibOut, rib,
                       siblings, importPolicies, exportPolicies, outgoing, pc,
                       sendq>>
        /\ OtherFrame

\* what no handler assigns: the configuration, and the channels, which only
\* chanSend writes
HandlerFrame == UNCHANGED <<cfg, outgoing, peerMsgCh>> /\ OtherFrame

\* a mutant: the broadcast ends after the first sibling
peerDownSendsFirstOnly(order) ==
    IF Len(order) = 0 THEN <<>>
    ELSE <<MkSend(order[1], MkPeerMsg(PEER_MSG_PEER_DOWN, PeerInfo))>>

\* the PEER_DOWN broadcast on leaving ESTABLISHED
peerDownSends(order) ==
    [i \in 1..Len(order) |->
        MkSend(order[i], MkPeerMsg(PEER_MSG_PEER_DOWN, PeerInfo))]

\* FSM_MSG_STATE_CHANGE
loopStateChange(nextState) ==
    /\ AtSelect /\ ~cfg.isGlobalRib
    /\ state' = nextState
    /\ IF state = BGP_FSM_ESTABLISHED
       THEN /\ adjRibIn' = DropAllInList(adjRibIn, configuredRFlist)
            /\ \E order \in Orders(siblings) : sendq' = peerDownSends(order)
       ELSE /\ adjRibIn' = adjRibIn
            /\ sendq' = <<>>
    /\ pc' = "entry"
    /\ UNCHANGED <<rfMap, capMap, adjRibOut, rib, siblings, importPolicies,
                   exportPolicies>>
    /\ HandlerFrame

\* a mutant: the second loop, which adds the advertised families, is missing
negotiatedRfMapPruneOnly(old, configured, r) == {rf \in old : rf \in r}

\* the two loops over rfMap of the OPEN case: the keys of rfMap afterwards
negotiatedRfMap(old, configured, r) ==
    {rf \in old : rf \in r} \cup {rf \in SeqToSet(configured) : rf \in r}

\* handleBGPmessage, BGP_MSG_OPEN
handleOpen(body) ==
    /\ AtSelect /\ ~cfg.isGlobalRib
    /\ UNCHANGED <<state, adjRibIn, adjRibOut, rib, siblings, importPolicies,
                   exportPolicies, pc, sendq>>
    /\ HandlerFrame
    /\ capMap' = capMap \cup body.caps
    /\ rfMap' = negotiatedRfMap(rfMap, configuredRFlist, body.families)

\* the ROUTE_REFRESH case: the sends it performs
routeRefreshSends(rf) ==
    IF rf \notin rfMap THEN <<>>
    ELSE IF BGP_CAP_ROUTE_REFRESH \in capMap
         THEN sendMessages(CreateUpdateMsgFromPaths(
                AdjRibPathList(adjRibOut, rf)))
         ELSE <<>>

\* handleBGPmessage, BGP_MSG_ROUTE_REFRESH
handleRouteRefresh(rf) ==
    /\ AtSelect /\ ~cfg.isGlobalRib
    /\ sendq' = routeRefreshSends(rf)
    /\ UNCHANGED <<state, rfMap, capMap, adjRibIn, adjRibOut, rib, siblings,
                   importPolicies, exportPolicies, pc>>
    /\ HandlerFrame

\* a mutant: the notification is sent whatever the code of the error
updateErrorSendsAlways(err) ==
    <<MkSend(OUTGOING,
        NewBGPNotificationMessage(err.TypeCode, err.SubTypeCode))>>

\* the error branch of the UPDATE case: the sends it performs
updateErrorSends(err) ==
    IF err.TypeCode # 0
    THEN <<MkSend(OUTGOING,
             NewBGPNotificationMessage(err.TypeCode, err.SubTypeCode))>>
    ELSE <<>>

\* handleBGPmessage, BGP_MSG_UPDATE
handleUpdate(body) ==
    /\ AtSelect /\ ~cfg.isGlobalRib
    /\ UNCHANGED <<state, rfMap, capMap, adjRibOut, rib, siblings,
                   importPolicies, exportPolicies, pc>>
    /\ HandlerFrame
    /\ LET err == ValidateUpdateMsg(body, rfMap)
           pathList == ToPathList(body, PeerInfo)
       IN  IF err # NoErr
           THEN /\ sendq' = updateErrorSends(err)
                /\ adjRibIn' = adjRibIn
           ELSE /\ adjRibIn' = AdjRibUpdate(adjRibIn, pathList)
                /\ \E order \in Orders(siblings) :
                     sendq' = sendPathsToSiblings(pathList, order)

\* FSM_MSG_BGP_MESSAGE carrying a *bgp.MessageError of the decoder
loopMessageError(m) ==
    /\ AtSelect /\ ~cfg.isGlobalRib
    /\ sendq' = <<MkSend(OUTGOING,
                    NewBGPNotificationMessage(m.TypeCode, m.SubTypeCode))>>
    /\ UNCHANGED <<state, rfMap, capMap, adjRibIn, adjRibOut, rib, siblings,
                   importPolicies, exportPolicies, pc>>
    /\ HandlerFrame

\* handlePeerMsg, PEER_MSG_PATH
handlePeerMsgPath(pList) ==
    /\ AtSelect
    /\ LET paths == importFilter(pList, importPolicies,
                                 cfg.DefaultImportPolicy).kept
           useRib == cfg.RouteServerClient \/ cfg.isGlobalRib
           r == ProcessPaths(rib, paths)
           best == IF useRib THEN r.paths ELSE paths
           u == sendUpdateMsgFromPaths(best, adjRibOut)
       IN  /\ rib' = IF useRib THEN r.rib ELSE rib
           /\ IF cfg.isGlobalRib
              THEN /\ \E order \in Orders(siblings) :
                        sendq' = sendPathsToSiblings(best, order)
                   /\ adjRibOut' = adjRibOut
              ELSE /\ sendq' = u.sends
                   /\ adjRibOut' = u.adjRibOut
    /\ UNCHANGED <<state, rfMap, capMap, adjRibIn, siblings, importPolicies,
                   exportPolicies, pc>>
    /\ HandlerFrame

\* a mutant: the loop over the configured families ends after the first
deletePathsLoopFirstOnly(rfList, peerInfo, acc, order, elseSiblings) ==
    IF rfList = <<>> THEN acc
    ELSE LET d == DeletePathsforPeer(acc.rib, peerInfo, Head(rfList))
             u == sendUpdateMsgFromPaths(d.paths, acc.adjRibOut)
         IN  IF cfg.RouteServerClient
             THEN [rib |-> d.rib, adjRibOut |-> u.adjRibOut,
                   sends |-> acc.sends \o u.sends]
             ELSE IF elseSiblings
             THEN [rib |-> d.rib, adjRibOut |-> acc.adjRibOut,
                   sends |-> acc.sends \o sendPathsToSiblings(d.paths, order)]
             ELSE [rib |-> d.rib, adjRibOut |-> acc.adjRibOut,
                   sends |-> acc.sends]

RECURSIVE deletePathsLoop(_, _, _, _, _)
\* the loop over configuredRFlist of PEER_MSG_PEER_DOWN and of
\* SRV_MSG_PEER_DELETED: the shared RIB and Adj-RIB-Out it leaves and the
\* sends it performs; elseSiblings is the condition of its second branch
deletePathsLoop(rfList, peerInfo, acc, order, elseSiblings) ==
    IF rfList = <<>> THEN acc
    ELSE LET d == DeletePathsforPeer(acc.rib, peerInfo, Head(rfList))
             u == sendUpdateMsgFromPaths(d.paths, acc.adjRibOut)
             step ==
               IF cfg.RouteServerClient
               THEN [rib |-> d.rib, adjRibOut |-> u.adjRibOut,
                     sends |-> acc.sends \o u.sends]
               ELSE IF elseSiblings
               THEN [rib |-> d.rib, adjRibOut |-> acc.adjRibOut,
                     sends |-> acc.sends \o sendPathsToSiblings(d.paths, order)]
               ELSE [rib |-> d.rib, adjRibOut |-> acc.adjRibOut,
                     sends |-> acc.sends]
         IN  deletePathsLoop(Tail(rfList), peerInfo, step, order, elseSiblings)

\* handlePeerMsg, PEER_MSG_PEER_DOWN
handlePeerMsgPeerDown(peerInfo) ==
    /\ AtSelect
    /\ \E order \in Orders(siblings) :
         LET r == deletePathsLoop(configuredRFlist, peerInfo,
                    [rib |-> rib, adjRibOut |-> adjRibOut, sends |-> <<>>],
                    order, cfg.isGlobalRib)
         IN  /\ rib' = r.rib
             /\ adjRibOut' = r.adjRibOut
             /\ sendq' = r.sends
    /\ UNCHANGED <<state, rfMap, capMap, adjRibIn, siblings, importPolicies,
                   exportPolicies, pc>>
    /\ HandlerFrame

\* (*table.TableManager).GetPathList
GetPathList(tbl, rf) ==
    IF BestPath(tbl[rf]) = NoPath THEN <<>> ELSE <<BestPath(tbl[rf])>>

RECURSIVE peerAddedLoop(_, _)
\* the loop over configuredRFlist of SRV_MSG_PEER_ADDED: the sends it performs
peerAddedLoop(rfList, order) ==
    IF rfList = <<>> THEN <<>>
    ELSE (IF cfg.RouteServerClient
          THEN sendPathsToSiblings(AdjRibPathList(adjRibIn, Head(rfList)), order)
          ELSE IF cfg.isGlobalRib
          THEN sendPathsToSiblings(GetPathList(rib, Head(rfList)), order)
          ELSE <<>>) \o peerAddedLoop(Tail(rfList), order)

\* handleServerMsg, SRV_MSG_PEER_ADDED
handleServerMsgPeerAdded(d) ==
    /\ AtSelect
    /\ siblings' = siblings \cup {d}
    /\ \E order \in Orders(siblings \cup {d}) :
         sendq' = peerAddedLoop(configuredRFlist, order)
    /\ UNCHANGED <<state, rfMap, capMap, adjRibIn, adjRibOut, rib,
                   importPolicies, exportPolicies, pc>>
    /\ HandlerFrame

\* handleServerMsg, SRV_MSG_PEER_DELETED
handleServerMsgPeerDeleted(d) ==
    /\ AtSelect
    /\ IF d \in siblings
       THEN /\ siblings' = siblings \ {d}
            /\ \E order \in Orders(siblings \ {d}) :
                 LET r == deletePathsLoop(configuredRFlist, d,
                            [rib |-> rib, adjRibOut |-> adjRibOut,
                             sends |-> <<>>], order, TRUE)
                 IN  /\ rib' = r.rib
                     /\ adjRibOut' = r.adjRibOut
                     /\ sendq' = r.sends
       ELSE UNCHANGED <<siblings, rib, adjRibOut, sendq>>
    /\ UNCHANGED <<state, rfMap, capMap, adjRibIn, importPolicies,
                   exportPolicies, pc>>
    /\ HandlerFrame

\* handleServerMsg, SRV_MSG_POLICY_UPDATED: setPolicy
handleServerMsgPolicyUpdated(policyMap) ==
    /\ AtSelect
    /\ importPolicies' = ResolvePolicies(cfg.ImportPolicies, policyMap)
    /\ exportPolicies' = ResolvePolicies(cfg.ExportPolicies, policyMap)
    /\ UNCHANGED <<state, rfMap, capMap, adjRibIn, adjRibOut, rib, siblings,
                   pc, sendq>>
    /\ HandlerFrame

\* api.RestRequest: the request types that send
REQ_NEIGHBOR_SHUTDOWN == "REQ_NEIGHBOR_SHUTDOWN"
REQ_NEIGHBOR_RESET == "REQ_NEIGHBOR_RESET"
REQ_NEIGHBOR_SOFT_RESET == "REQ_NEIGHBOR_SOFT_RESET"
REQ_NEIGHBOR_SOFT_RESET_IN == "REQ_NEIGHBOR_SOFT_RESET_IN"
REQ_NEIGHBOR_SOFT_RESET_OUT == "REQ_NEIGHBOR_SOFT_RESET_OUT"
RestRequests ==
    [RequestType : {REQ_NEIGHBOR_SHUTDOWN, REQ_NEIGHBOR_RESET,
                    REQ_NEIGHBOR_SOFT_RESET, REQ_NEIGHBOR_SOFT_RESET_IN,
                    REQ_NEIGHBOR_SOFT_RESET_OUT},
     RouteFamily : Families]

\* a mutant: the combined soft reset does not fall through to the outbound
\* case
handleRESTSendsNoFallthrough(restReq, order) ==
    LET in == sendPathsToSiblings(
                AdjRibPathList(adjRibIn, restReq.RouteFamily), order)
        out == sendMessages(CreateUpdateMsgFromPaths(
                AdjRibPathList(adjRibOut, restReq.RouteFamily)))
    IN  CASE restReq.RequestType = REQ_NEIGHBOR_SHUTDOWN ->
               <<MkSend(OUTGOING, NewBGPNotificationMessage(BGP_ERROR_CEASE,
                    BGP_ERROR_SUB_ADMINISTRATIVE_SHUTDOWN))>>
          [] restReq.RequestType = REQ_NEIGHBOR_RESET ->
               <<MkSend(OUTGOING, NewBGPNotificationMessage(BGP_ERROR_CEASE,
                    BGP_ERROR_SUB_ADMINISTRATIVE_RESET))>>
          [] restReq.RequestType = REQ_NEIGHBOR_SOFT_RESET -> in
          [] restReq.RequestType = REQ_NEIGHBOR_SOFT_RESET_IN -> in
          [] restReq.RequestType = REQ_NEIGHBOR_SOFT_RESET_OUT -> out
          [] OTHER -> <<>>

\* handleREST: the sends it performs
handleRESTSends(restReq, order) ==
    LET in == sendPathsToSiblings(
                AdjRibPathList(adjRibIn, restReq.RouteFamily), order)
        out == sendMessages(CreateUpdateMsgFromPaths(
                AdjRibPathList(adjRibOut, restReq.RouteFamily)))
    IN  CASE restReq.RequestType = REQ_NEIGHBOR_SHUTDOWN ->
               <<MkSend(OUTGOING, NewBGPNotificationMessage(BGP_ERROR_CEASE,
                    BGP_ERROR_SUB_ADMINISTRATIVE_SHUTDOWN))>>
          [] restReq.RequestType = REQ_NEIGHBOR_RESET ->
               <<MkSend(OUTGOING, NewBGPNotificationMessage(BGP_ERROR_CEASE,
                    BGP_ERROR_SUB_ADMINISTRATIVE_RESET))>>
          [] restReq.RequestType = REQ_NEIGHBOR_SOFT_RESET -> in \o out
          [] restReq.RequestType = REQ_NEIGHBOR_SOFT_RESET_IN -> in
          [] restReq.RequestType = REQ_NEIGHBOR_SOFT_RESET_OUT -> out
          [] OTHER -> <<>>

\* handleServerMsg, SRV_MSG_API
handleServerMsgApi(restReq) ==
    /\ AtSelect
    /\ \E order \in Orders(siblings) :
         sendq' = handleRESTSends(restReq, order)
    /\ UNCHANGED <<state, rfMap, capMap, adjRibIn, adjRibOut, rib, siblings,
                   importPolicies, exportPolicies, pc>>
    /\ HandlerFrame

\* the t.Dying() case of the select: the CEASE notification is sent
loopDying ==
    /\ AtSelect
    /\ sendq' = <<MkSend(OUTGOING, NewBGPNotificationMessage(BGP_ERROR_CEASE,
                    BGP_ERROR_SUB_PEER_DECONFIGURED))>>
    /\ pc' = "dying"
    /\ UNCHANGED <<state, rfMap, capMap, adjRibIn, adjRibOut, rib, siblings,
                   importPolicies, exportPolicies>>
    /\ HandlerFrame

\* h.Stop() and the return of loop(); the global-RIB pseudo-peer has no
\* handler to stop
loopStop ==
    /\ pc = "dying" /\ sendq = <<>>
    /\ pc' = IF cfg.isGlobalRib THEN "panic" ELSE "done"
    /\ UNCHANGED <<cfg, state, rfMap, capMap, adjRibIn, adjRibOut, rib,
                   siblings, importPolicies, exportPolicies, outgoing,
                   peerMsgCh, sendq>>
    /\ OtherFrame

\* ------------------------------------------------------- the environment
\* the FSM driver reports a transition
fsmStateChange == \E nextState \in FsmNext(state) : loopStateChange(nextState)
\* the FSM driver delivers the OPEN of the remote while in OPENSENT
fsmOpen ==
    \E body \in OpenBodies : state = BGP_FSM_OPENSENT /\ handleOpen(body)
\* the FSM driver delivers messages of the remote while ESTABLISHED
fsmRouteRefresh ==
    \E rf \in Families : state = BGP_FSM_ESTABLISHED /\ handleRouteRefresh(rf)
fsmUpdate ==
    \E body \in UpdateBodies : state = BGP_FSM_ESTABLISHED /\ handleUpdate(body)
\* the FSM driver delivers a decoder error while a connection is up
DecoderErrors ==
    {MessageError(BGP_ERROR_MESSAGE_HEADER_ERROR,
                  BGP_ERROR_SUB_BAD_MESSAGE_LENGTH)}
fsmMessageError ==
    \E m \in DecoderErrors :
        /\ state \in {BGP_FSM_OPENSENT, BGP_FSM_OPENCONFIRM, BGP_FSM_ESTABLISHED}
        /\ loopMessageError(m)
\* a sibling sends a message
siblingPath == \E pList \in SiblingPathLists : handlePeerMsgPath(pList)
siblingPeerDown == \E s \in AllSiblings : handlePeerMsgPeerDown(s)
\* the parent server sends a message
serverPeerAdded == \E d \in AllSiblings : handleServerMsgPeerAdded(d)
serverPeerDeleted == \E d \in AllSiblings : handleServerMsgPeerDeleted(d)
serverPolicyUpdated ==
    \E policyMap \in PolicyMaps : handleServerMsgPolicyUpdated(policyMap)
serverApi == \E restReq \in RestRequests : handleServerMsgApi(restReq)

Next ==
    \/ loopEntry /\ StatFrame
    \/ chanSend /\ StatFrame
    \/ fsmSendMessage /\ StatFrame
    \/ siblingReceive /\ StatFrame
    \/ fsmStateChange /\ StatFrame
    \/ fsmOpen /\ StatFrame
    \/ fsmRouteRefresh /\ StatFrame
    \/ fsmUpdate /\ StatFrame
    \/ fsmMessageError /\ StatFrame
    \/ siblingPath /\ StatFrame
    \/ siblingPeerDown /\ StatFrame
    \/ serverPeerAdded /\ StatFrame
    \/ serverPeerDeleted /\ StatFrame
    \/ serverPolicyUpdated /\ StatFrame
    \/ serverApi /\ StatFrame
    \/ loopDying /\ StatFrame
    \/ loopStop /\ StatFrame

Spec == Init /\ [][Next]_vars

\* ------------------------------------------------- properties of Spec
\* the sibling messages of the given type in q
SiblingSends(q, msgType) ==
    {i \in 1..Len(q) : q[i].ch # OUTGOING /\ q[i].msg.msgType = msgType}

\* C1: a message is placed on `outgoing` only while the recorded state is
\* ESTABLISHED; an emission attempted in another state leaves the channel as
\* it is
C1_OutgoingOnlyWhenEstablished ==
    [][outgoing' = outgoing + 1 => state = BGP_FSM_ESTABLISHED]_vars

\* C2: no UPDATE placed on `outgoing` carries a path whose nexthop is the
\* address of the neighbor, whichever egress route queued it
C2_NoNexthopSelfOnOutgoing ==
    [][(outgoing' = outgoing + 1 /\ Head(sendq).msg.type = "UPDATE")
        => Head(sendq).msg.path.nexthop # NeighborAddress]_vars

\* C3: handling a state change that leaves ESTABLISHED empties Adj-RIB-In for
\* every configured family and sends exactly one PEER_DOWN with the PeerInfo
\* of this peer to every sibling of the directory; no other step sends a
\* PEER_DOWN
C3_PeerDownOnLeavingEstablished ==
    [][/\ \A nextState \in FSMStates :
            (loopStateChange(nextState) /\ state = BGP_FSM_ESTABLISHED
                /\ nextState # BGP_FSM_ESTABLISHED)
            => /\ \A rf \in SeqToSet(configuredRFlist) :
                    AdjRibPathList(adjRibIn', rf) = <<>>
               /\ Len(sendq') = Cardinality(siblings)
               /\ \A s \in siblings :
                    \E i \in 1..Len(sendq') :
                        sendq'[i] = MkSend(s, MkPeerMsg(PEER_MSG_PEER_DOWN,
                                                        PeerInfo))
       /\ (sendq = <<>> /\ SiblingSends(sendq', PEER_MSG_PEER_DOWN) # {})
            => (state = BGP_FSM_ESTABLISHED /\ state' # BGP_FSM_ESTABLISHED)
      ]_vars

\* C3 witness: the session has just left ESTABLISHED with both siblings in the
\* directory; the two PEER_DOWN are about to be sent
C3_Witness ==
    /\ pc = "entry" /\ state = BGP_FSM_IDLE
    /\ siblings = AllSiblings
    /\ Len(sendq) = 2
    /\ SiblingSends(sendq, PEER_MSG_PEER_DOWN) = {1, 2}
    /\ adjRibIn = EmptyRib
    /\ adjRibOut # EmptyRib

\* C4: handling an OPEN leaves rfMap the intersection of the configured
\* families and the families of that OPEN, so a family an earlier OPEN removed
\* comes back; rfMap never holds a family that is not configured
C4_RfMapIsIntersection ==
    [][/\ \A body \in OpenBodies :
            handleOpen(body) =>
                rfMap' = SeqToSet(configuredRFlist) \cap body.families
       /\ rfMap' \subseteq SeqToSet(configuredRFlist)
      ]_vars

\* C4 witness: an OPEN that advertised IPv4 alone, with its capabilities, has
\* been handled by a peer configured for both families
C4_Witness ==
    /\ state = BGP_FSM_OPENSENT
    /\ SeqToSet(configuredRFlist) = Families
    /\ rfMap = {RF_IPv4_UC}
    /\ capMap = Capabilities

\* C7: an UPDATE that fails validation puts exactly one NOTIFICATION with the
\* code and subcode of the error on `outgoing` if the code is not zero and
\* nothing if it is; Adj-RIB-In stays as it is, no sibling is sent a PATH and
\* the session goes on
C7_InvalidUpdate ==
    [][\A body \in UpdateBodies :
          (ValidateUpdateMsg(body, rfMap) # NoErr /\ handleUpdate(body))
          => LET err == ValidateUpdateMsg(body, rfMap)
             IN  /\ adjRibIn' = adjRibIn
                 /\ sendq' =
                      IF err.TypeCode # 0
                      THEN <<MkSend(OUTGOING, NewBGPNotificationMessage(
                                err.TypeCode, err.SubTypeCode))>>
                      ELSE <<>>
                 /\ state' = state /\ pc' = "select"
      ]_vars

\* C7 witness: the NOTIFICATION of a malformed AS_PATH is about to be sent,
\* the session being ESTABLISHED
C7_Witness ==
    /\ state = BGP_FSM_ESTABLISHED /\ pc = "select"
    /\ sendq = <<MkSend(OUTGOING, NewBGPNotificationMessage(
                    BGP_ERROR_UPDATE_MESSAGE_ERROR,
                    BGP_ERROR_SUB_MALFORMED_AS_PATH))>>

\* the last path of the list for a family; NoPath if it has none
LastFor(pathList, rf) ==
    LET I == {i \in 1..Len(pathList) : pathList[i].rf = rf}
    IN  IF I = {} THEN NoPath
        ELSE pathList[CHOOSE i \in I : \A j \in I : j <= i]

\* C8: a valid UPDATE with a path list that is not empty leaves in Adj-RIB-In,
\* per destination, its last announcement, or nothing if it withdrew it last,
\* and sends every sibling exactly one PATH with the whole list, each path
\* tagged with the PeerInfo of this peer; outside ESTABLISHED Adj-RIB-In is
\* empty
C8_ValidUpdate ==
    [][/\ \A body \in UpdateBodies :
            (Len(body.routes) > 0 /\ ValidateUpdateMsg(body, rfMap) = NoErr
                /\ handleUpdate(body))
            => LET pathList == ToPathList(body, PeerInfo)
               IN  /\ \A rf \in Families :
                        adjRibIn'[rf] =
                          IF LastFor(pathList, rf) = NoPath THEN adjRibIn[rf]
                          ELSE IF LastFor(pathList, rf).withdraw THEN NoPath
                          ELSE LastFor(pathList, rf)
                   /\ \A i \in 1..Len(pathList) :
                        pathList[i].source = PeerInfo
                   /\ Len(sendq') = Cardinality(siblings)
                   /\ \A s \in siblings :
                        \E i \in 1..Len(sendq') :
                            sendq'[i] = MkSend(s, MkPeerMsg(PEER_MSG_PATH,
                                                            pathList))
       /\ state' # BGP_FSM_ESTABLISHED => adjRibIn' = EmptyRib
      ]_vars

\* C8 witness: an UPDATE announcing an IPv4 route and withdrawing an IPv6
\* route has been applied, the PATH for both siblings being about to be sent
C8_Witness ==
    /\ state = BGP_FSM_ESTABLISHED /\ siblings = AllSiblings
    /\ Len(sendq) = 2
    /\ SiblingSends(sendq, PEER_MSG_PATH) = {1, 2}
    /\ sendq[1].msg.msgData =
         <<MkPath(RF_IPv4_UC, NeighborAddress, FALSE, PeerInfo),
           MkPath(RF_IPv6_UC, NeighborAddress, TRUE, PeerInfo)>>
    /\ adjRibIn[RF_IPv4_UC] =
         MkPath(RF_IPv4_UC, NeighborAddress, FALSE, PeerInfo)
    /\ adjRibIn[RF_IPv6_UC] = NoPath

\* the paths of the UPDATEs among the sends q, in order
OutgoingPaths(q) ==
    LET ups == SelectSeq(q, LAMBDA s : s.ch = OUTGOING /\ s.msg.type = "UPDATE")
    IN  [i \in 1..Len(ups) |-> ups[i].msg.path]

\* the sends of q on `outgoing`
OutgoingSends(q) == SelectSeq(q, LAMBDA s : s.ch = OUTGOING)

\* what a soft reset leaves behind: the Adj-RIBs as they were, one PATH with
\* the Adj-RIB-In of the family for every sibling if it is an inbound reset
\* and inCond holds, UPDATEs for the Adj-RIB-Out of the family, and nothing
\* else, on `outgoing` if it is an outbound reset and outCond holds
SoftResetPost(restReq, inCond, outCond) ==
    LET rf == restReq.RouteFamily
        in == AdjRibPathList(adjRibIn, rf)
        out == AdjRibPathList(adjRibOut, rf)
        doesIn == restReq.RequestType \in
                    {REQ_NEIGHBOR_SOFT_RESET, REQ_NEIGHBOR_SOFT_RESET_IN}
        doesOut == restReq.RequestType \in
                    {REQ_NEIGHBOR_SOFT_RESET, REQ_NEIGHBOR_SOFT_RESET_OUT}
        pathSends == SiblingSends(sendq', PEER_MSG_PATH)
    IN  /\ adjRibIn' = adjRibIn /\ adjRibOut' = adjRibOut
        /\ SiblingSends(sendq', PEER_MSG_PEER_DOWN) = {}
        /\ IF doesIn /\ inCond
           THEN /\ Cardinality(pathSends) = Cardinality(siblings)
                /\ \A s \in siblings : \E i \in pathSends :
                      sendq'[i] = MkSend(s, MkPeerMsg(PEER_MSG_PATH, in))
           ELSE pathSends = {}
        /\ OutgoingPaths(sendq') = IF doesOut /\ outCond THEN out ELSE <<>>
        /\ Len(OutgoingSends(sendq')) = Len(OutgoingPaths(sendq'))

SoftResets ==
    {r \in RestRequests : r.RequestType \in
        {REQ_NEIGHBOR_SOFT_RESET, REQ_NEIGHBOR_SOFT_RESET_IN,
         REQ_NEIGHBOR_SOFT_RESET_OUT}}

\* C12 as worded: an inbound soft reset sends every sibling one PATH with the
\* Adj-RIB-In of the family, an outbound soft reset places UPDATEs for the
\* Adj-RIB-Out of the family on `outgoing`, the combined one does both, and
\* the Adj-RIBs stay as they are
C12_SoftResetAlways ==
    [][\A restReq \in SoftResets :
          handleServerMsgApi(restReq) => SoftResetPost(restReq, TRUE, TRUE)
      ]_vars

\* C12 amended: the PATH is sent if the Adj-RIB-In of the family is not
\* empty, and no PATH at all if it is; the UPDATEs are placed on `outgoing`
\* if the recorded state is ESTABLISHED, and nothing if it is not
C12_SoftReset ==
    [][\A restReq \in SoftResets :
          handleServerMsgApi(restReq)
          => SoftResetPost(restReq,
                AdjRibPathList(adjRibIn, restReq.RouteFamily) # <<>>,
                state = BGP_FSM_ESTABLISHED)
      ]_vars

\* C12 witness: a combined soft reset for IPv4 has been handled while
\* ESTABLISHED: the PATH with Adj-RIB-In for both siblings and the UPDATE for
\* Adj-RIB-Out are about to be sent
C12_Witness ==
    /\ state = BGP_FSM_ESTABLISHED /\ pc = "select"
    /\ siblings = AllSiblings
    /\ Len(sendq) = 3
    /\ SiblingSends(sendq, PEER_MSG_PATH) = {1, 2}
    /\ sendq[1].msg.msgData = <<adjRibIn[RF_IPv4_UC]>>
    /\ OutgoingPaths(sendq) = <<adjRibOut[RF_IPv4_UC]>>

\* C18: a PATH handled while the recorded state is not ESTABLISHED records in
\* Adj-RIB-Out every announcement the export filter keeps and queues nothing
\* for `outgoing`; the entry actions of ESTABLISHED queue one UPDATE for each
\* path Adj-RIB-Out holds for a family of rfMap, and nothing else
C18_ReplayOnEntry ==
    [][/\ \A pList \in SiblingPathLists :
            (state # BGP_FSM_ESTABLISHED /\ ~cfg.isGlobalRib
                /\ ~cfg.RouteServerClient /\ handlePeerMsgPath(pList))
            => LET kept == exportFilter(
                             CloneAndUpdatePathAttrs(
                               importFilter(pList, importPolicies,
                                            cfg.DefaultImportPolicy).kept),
                             exportPolicies, cfg.DefaultExportPolicy).kept
               IN  /\ OutgoingSends(sendq') = <<>>
                   /\ \A i \in 1..Len(kept) :
                        ~kept[i].withdraw => adjRibOut'[kept[i].rf] = kept[i]
       /\ (pc = "entry" /\ state = BGP_FSM_ESTABLISHED /\ loopEntry)
            => /\ Len(sendq') = Len(OutgoingPaths(sendq'))
               /\ SeqToSet(OutgoingPaths(sendq')) =
                    {adjRibOut[rf] : rf \in rfMap} \ {NoPath}
               /\ Len(sendq') =
                    Cardinality({rf \in rfMap : adjRibOut[rf] # NoPath})
      ]_vars

\* C18 witness: the entry actions of ESTABLISHED have queued the UPDATEs of
\* both families, the IPv4 path having been recorded from a sibling PATH that
\* was not sent at the time (its nexthop is the neighbor)
C18_Witness ==
    /\ state = BGP_FSM_ESTABLISHED /\ pc = "select"
    /\ rfMap = Families /\ capMap = {}
    /\ Len(sendq) = 2
    /\ SeqToSet(OutgoingPaths(sendq)) =
         {adjRibOut[RF_IPv4_UC], adjRibOut[RF_IPv6_UC]}
    /\ adjRibOut[RF_IPv4_UC] =
         MkPath(RF_IPv4_UC, NeighborAddress, FALSE, Sibling1)
    /\ adjRibOut[RF_IPv6_UC] = MkPath(RF_IPv6_UC, Sibling1, FALSE, Sibling1)

\* C22: every UPDATE put on `outgoing` carries a path whose route family is
\* in rfMap at that moment, whichever handler queued it: the export of a
\* sibling's paths, the replay on entering ESTABLISHED, the replay for a
\* ROUTE-REFRESH and the replay of an outbound soft reset
C22_OutgoingFamilyInRfMap ==
    [][(outgoing' = outgoing + 1 /\ Head(sendq).msg.type = "UPDATE")
        => Head(sendq).msg.path.rf \in rfMap]_vars

\* ------------- StatSpec: the statistics, the timers, the administrative state
\* the wall clock has a finer grain than the second Uptime is recorded in
TicksPerSecond == 2
\* FLOP_THRESHOLD, in seconds
FLOP_THRESHOLD == 30
\* the clock stops at MaxTime ticks
MaxTime == 120
\* the sessions that reach ESTABLISHED between two resets of the counters
MaxCount == 2
\* the time that passes between two steps, in ticks: twenty-nine seconds and
\* a half, and thirty seconds
ClockSteps == {59, 60}
\* the hold times of the configuration and of the OPEN, in seconds
HoldTimes == {0, 90, 180}

\* a mutant: the threshold itself counts as a flap
flopCountedAtThreshold(t, sec) ==
    t - sec * TicksPerSecond <= FLOP_THRESHOLD * TicksPerSecond

\* t.Sub(time.Unix(sec, 0)) < FLOP_THRESHOLD
flopCounted(t, sec) ==
    t - sec * TicksPerSecond < FLOP_THRESHOLD * TicksPerSecond

\* a counter after the "clear counter" that ends the state-change case
clearCounter(c) == IF adminState = ADMIN_STATE_DOWN THEN 0 ELSE c

\* a mutant: the hold time of the OPEN is taken as it is
negotiateHoldTimeRemote(holdTime, myHoldTime) == holdTime

\* the hold time computation of the OPEN case
negotiateHoldTime(holdTime, myHoldTime) ==
    IF holdTime > myHoldTime THEN myHoldTime ELSE holdTime

REQ_NEIGHBOR_ENABLE == "REQ_NEIGHBOR_ENABLE"
REQ_NEIGHBOR_DISABLE == "REQ_NEIGHBOR_DISABLE"
AdminRequests ==
    [RequestType : {REQ_NEIGHBOR_ENABLE, REQ_NEIGHBOR_DISABLE},
     RouteFamily : {RF_IPv4_UC}]
\* the capacity of fsm.adminStateCh
AdminStateChCap == 1
StillRemaining == "previous request is still remaining"

\* a mutant: the response names the requested state whether or not the token
\* was taken
handleRESTAdminAlwaysOk(restReq) ==
    LET token == IF restReq.RequestType = REQ_NEIGHBOR_ENABLE
                 THEN ADMIN_STATE_UP ELSE ADMIN_STATE_DOWN
    IN  /\ adminStateCh' = IF Len(adminStateCh) < AdminStateChCap
                           THEN Append(adminStateCh, token) ELSE adminStateCh
        /\ restResult' = token

\* handleREST, REQ_NEIGHBOR_ENABLE and REQ_NEIGHBOR_DISABLE: the select with
\* a default case on adminStateCh, and r["result"]
handleRESTAdmin(restReq) ==
    LET token == IF restReq.RequestType = REQ_NEIGHBOR_ENABLE
                 THEN ADMIN_STATE_UP ELSE ADMIN_STATE_DOWN
    IN  IF Len(adminStateCh) < AdminStateChCap
        THEN /\ adminStateCh' = Append(adminStateCh, token)
             /\ restResult' = token
        ELSE /\ adminStateCh' = adminStateCh
             /\ restResult' = StillRemaining

\* the configurations of StatSpec: a peer without policy, with either hold
\* time
StatConfigs == {[PlainConfig EXCEPT !.HoldTime = h] : h \in {0, 90}}
\* the OPENs of StatSpec: both families, with or without capabilities
StatOpenBodies ==
    [families : {Families}, caps : {{}, Capabilities}, holdTime : HoldTimes]
\* the PATH of StatSpec: one IPv4 announcement of Sibling1
StatPathLists == {<<MkPath(RF_IPv4_UC, Sibling1, FALSE, Sibling1)>>}

StatInit ==
    /\ cfg \in StatConfigs
    /\ state = BGP_FSM_IDLE
    /\ rfMap = SeqToSet(cfg.AfiSafiList)
    /\ capMap = {}
    /\ adjRibIn = EmptyRib
    /\ adjRibOut = EmptyRib
    /\ rib = EmptyTable
    /\ siblings = {Sibling1}
    /\ importPolicies = <<>>
    /\ exportPolicies = <<>>
    /\ outgoing = 0
    /\ peerMsgCh = EmptyMailboxes
    /\ pc = "entry"
    /\ sendq = <<>>
    /\ ConcIdle
    /\ PolIdle
    /\ StatIdle
    /\ MeshIdle

\* the top of loop() with the counters: the clear that ended the state-change
\* case, then Uptime, which is time.Now().Unix(), the clock in whole seconds,
\* and EstablishedCount on entering ESTABLISHED
statLoopEntry ==
    /\ loopEntry
    /\ flops' = clearCounter(flops)
    /\ uptime' = IF state = BGP_FSM_ESTABLISHED
                 THEN now \div TicksPerSecond
                 ELSE clearCounter(uptime)
    /\ establishedCount' =
         IF state = BGP_FSM_ESTABLISHED
         THEN clearCounter(establishedCount) + 1
         ELSE clearCounter(establishedCount)
    /\ UNCHANGED <<now, negotiatedHoldTime, adminState, adminStateCh,
                   restResult, remoteOpen, advertised, incoming>>

\* FSM_MSG_STATE_CHANGE with the flap counter; once the administrative state
\* is DOWN the FSM driver reports the transition to IDLE alone, and the remote
\* sends its OPEN before the FSM leaves OPENSENT for OPENCONFIRM
statStateChange ==
    \E nextState \in FsmNext(state) :
        /\ adminState = ADMIN_STATE_DOWN
             => (nextState = BGP_FSM_IDLE /\ state # BGP_FSM_IDLE)
        /\ nextState = BGP_FSM_ESTABLISHED => establishedCount < MaxCount
        /\ nextState = BGP_FSM_OPENCONFIRM => remoteOpen # NoOpen
        /\ loopStateChange(nextState)
        /\ flops' = IF state = BGP_FSM_ESTABLISHED /\ flopCounted(now, uptime)
                    THEN flops + 1 ELSE flops
        /\ remoteOpen' = IF nextState \in {BGP_FSM_IDLE, BGP_FSM_ACTIVE}
                         THEN NoOpen ELSE remoteOpen
        /\ UNCHANGED <<now, uptime, establishedCount, negotiatedHoldTime,
                       adminState, adminStateCh, restResult,
                       advertised, incoming>>

\* the OPEN of the remote, one per session, with the hold time
statOpen ==
    \E body \in StatOpenBodies :
        /\ state = BGP_FSM_OPENSENT /\ remoteOpen = NoOpen
        /\ handleOpen(body)
        /\ negotiatedHoldTime' = negotiateHoldTime(body.holdTime, cfg.HoldTime)
        /\ remoteOpen' = body
        /\ UNCHANGED <<now, uptime, flops, establishedCount, adminState,
                       adminStateCh, restResult, advertised, incoming>>

\* SRV_MSG_API with REQ_NEIGHBOR_ENABLE or REQ_NEIGHBOR_DISABLE
statServerApi ==
    \E restReq \in AdminRequests :
        /\ handleServerMsgApi(restReq)
        /\ handleRESTAdmin(restReq)
        /\ UNCHANGED <<now, uptime, flops, establishedCount,
                       negotiatedHoldTime, adminState, remoteOpen,
                       advertised, incoming>>

\* the FSM driver takes the token from adminStateCh
fsmAdminState ==
    /\ adminStateCh # <<>>
    /\ adminState' = Head(adminStateCh)
    /\ adminStateCh' = Tail(adminStateCh)
    /\ UNCHANGED <<sessionVars, now, uptime, flops, establishedCount,
                   negotiatedHoldTime, restResult, remoteOpen,
                   advertised, incoming>>
    /\ OtherFrame

\* time passes
clockTick ==
    \E d \in ClockSteps :
        /\ now + d <= MaxTime
        /\ now' = now + d
        /\ UNCHANGED <<sessionVars, uptime, flops, establishedCount,
                       negotiatedHoldTime, adminState, adminStateCh,
                       restResult, remoteOpen, advertised, incoming>>
        /\ OtherFrame

StatNext ==
    \/ statLoopEntry
    \/ chanSend /\ StatFrame
    \/ fsmSendMessage /\ StatFrame
    \/ siblingReceive /\ StatFrame
    \/ statStateChange
    \/ statOpen
    \/ (\E pList \in StatPathLists : handlePeerMsgPath(pList)) /\ StatFrame
    \/ statServerApi
    \/ fsmAdminState
    \/ clockTick

StatSpec == StatInit /\ [][StatNext]_vars

\* ------------------------------------------------ properties of StatSpec
\* C11: an UPDATE placed on `outgoing` in a session whose OPEN of the remote
\* did not advertise the 4-octet AS capability has its AS path in 2-octet
\* form, whatever the OPEN of an earlier session advertised
C11_TwoOctetWithoutCapability ==
    [][(outgoing' = outgoing + 1 /\ Head(sendq).msg.type = "UPDATE"
            /\ remoteOpen # NoOpen
            /\ BGP_CAP_FOUR_OCTET_AS_NUMBER \notin remoteOpen.caps)
        => Head(sendq).msg.as4 = FALSE]_vars

C14_HoldTimeIsMin ==
    [][(remoteOpen' # remoteOpen /\ remoteOpen' # NoOpen)
        => /\ negotiatedHoldTime' \in {cfg.HoldTime, remoteOpen'.holdTime}
           /\ negotiatedHoldTime' <= cfg.HoldTime
           /\ negotiatedHoldTime' <= remoteOpen'.holdTime
      ]_vars

\* C14 witness: an OPEN with a hold time of 180 has been handled by a peer
\* configured with 90, after a session in which the OPEN had 0
C14_Witness ==
    /\ state = BGP_FSM_OPENSENT
    /\ cfg.HoldTime = 90
    /\ remoteOpen # NoOpen /\ remoteOpen.holdTime = 180
    /\ negotiatedHoldTime = 90
    /\ establishedCount = 1

PolPaths == {MkPath(rf, Sibling1, wd, Sibling1) : rf \in Families, wd \in BOOLEAN}

\* the session variables, which the policy functions do not read
SessionIdle ==
    /\ cfg = PlainConfig
    /\ state = BGP_FSM_IDLE
    /\ rfMap = SeqToSet(cfg.AfiSafiList)
    /\ capMap = {}
    /\ adjRibIn = EmptyRib
    /\ adjRibOut = EmptyRib
    /\ rib = EmptyTable
    /\ siblings = AllSiblings
    /\ importPolicies = <<>>
    /\ exportPolicies = <<>>
    /\ outgoing = 0
    /\ peerMsgCh = EmptyMailboxes
    /\ pc = "entry"
    /\ sendq = <<>>

PolInit ==
    /\ polIn \in [policies : SeqsOf(Policies, 0, MaxChain),
                  pList : SeqsOf(PolPaths, 1, MaxPathList),
                  default : DefaultPolicyTypes]
    /\ polOut = NoPol
    /\ SessionIdle
    /\ ConcIdle
    /\ StatIdle
    /\ MeshIdle

\* applyPolicies on the first path of the list
callApplyPolicies ==
    /\ polOut = NoPol
    /\ polOut' = [fn |-> "applyPolicies",
                  res |-> applyPolicies(polIn.policies, Head(polIn.pList))]
    /\ UNCHANGED <<polIn, sessionVars, concVars, statVars, mesh>>

\* the import loop of handlePeerMsg on the list
callImportFilter ==
    /\ polOut = NoPol
    /\ polOut' = [fn |-> "import",
                  res |-> importFilter(polIn.pList, polIn.policies,
                                       polIn.default)]
    /\ UNCHANGED <<polIn, sessionVars, concVars, statVars, mesh>>

\* the export loop of sendUpdateMsgFromPaths on the list
callExportFilter ==
    /\ polOut = NoPol
    /\ polOut' = [fn |-> "export",
                  res |-> exportFilter(polIn.pList, polIn.policies,
                                       polIn.default)]
    /\ UNCHANGED <<polIn, sessionVars, concVars, statVars, mesh>>

PolNext ==
    \/ callApplyPolicies
    \/ callImportFilter
    \/ callExportFilter

PolSpec == PolInit /\ [][PolNext]_vars

\* the position in the chain of the first policy whose condition the path
\* meets; 0 if there is none
FirstMatch(policies, path) ==
    LET M == {i \in 1..Len(policies) : PolicyApply(policies[i], path).result}
    IN  IF M = {} THEN 0 ELSE CHOOSE i \in M : \A j \in M : i <= j

\* C9: applyPolicies returns the outcome of the first policy of the chain that
\* matches - (true, nil) if its action is REJECT, (true, its new path)
\* otherwise - having consulted the policies up to that one and none after it;
\* if no policy matches it returns (false, the original path)
C9_FirstMatchWins ==
    polOut # NoPol /\ polOut.fn = "applyPolicies" =>
        LET policies == polIn.policies
            original == Head(polIn.pList)
            k == FirstMatch(policies, original)
        IN  IF k = 0
            THEN polOut.res = [applied |-> FALSE, path |-> original,
                               consulted |-> Len(policies)]
            ELSE /\ polOut.res.applied
                 /\ polOut.res.consulted = k
                 /\ polOut.res.path =
                      IF policies[k].action = ROUTE_TYPE_REJECT THEN NilPath
                      ELSE PolicyApply(policies[k], original).newpath

\* C9 witness: a chain whose first policy rejected the path, a later policy
\* that matches it too being left unconsulted
C9_Witness ==
    /\ polOut # NoPol /\ polOut.fn = "applyPolicies"
    /\ polOut.res.applied /\ polOut.res.path = NilPath
    /\ polOut.res.consulted < Len(polIn.policies)
    /\ PolicyApply(polIn.policies[Len(polIn.policies)], Head(polIn.pList)).result

\* what a filter keeps of one path, and the Apply calls it makes for it
ExpectedKept(p, policies, default) ==
    LET k == FirstMatch(policies, p)
    IN  IF p.withdraw \/ policies = <<>> THEN <<p>>
        ELSE IF k = 0
        THEN (IF default = DEFAULT_POLICY_TYPE_ACCEPT_ROUTE THEN <<p>> ELSE <<>>)
        ELSE IF policies[k].action = ROUTE_TYPE_REJECT THEN <<>>
        ELSE <<PolicyApply(policies[k], p).newpath>>
ExpectedConsulted(p, policies) ==
    IF p.withdraw THEN 0
    ELSE IF FirstMatch(policies, p) = 0 THEN Len(policies)
    ELSE FirstMatch(policies, p)
RECURSIVE SumSeq(_)
SumSeq(ns) == IF ns = <<>> THEN 0 ELSE Head(ns) + SumSeq(Tail(ns))

\* C10: the import and the export filter keep a withdrawal without consulting
\* policy; with an empty chain they keep every other path unchanged whatever
\* the default verdict; with a chain in which no policy matches they keep the
\* path iff the default verdict is accept; a path whose matching policy is
\* REJECT is not kept
C10_FilterVerdicts ==
    polOut # NoPol /\ polOut.fn \in {"import", "export"} =>
        LET pList == polIn.pList
            n == Len(pList)
        IN  /\ polOut.res.kept =
                 Flatten([i \in 1..n |->
                    ExpectedKept(pList[i], polIn.policies, polIn.default)])
            /\ polOut.res.consulted =
                 SumSeq([i \in 1..n |->
                    ExpectedConsulted(pList[i], polIn.policies)])

\* C10 witness: the export filter, under a default verdict of reject, given an
\* empty chain and a list of an announcement and a withdrawal, kept both
C10_Witness ==
    /\ polOut # NoPol /\ polOut.fn = "export"
    /\ polIn.policies = <<>>
    /\ polIn.default = DEFAULT_POLICY_TYPE_REJECT_ROUTE
    /\ Len(polIn.pList) = 2
    /\ ~polIn.pList[1].withdraw /\ polIn.pList[2].withdraw
    /\ polOut.res.kept = polIn.pList

\* ------------------- RsSpec: the session of every kind of peer, the
\* route-server client included
RsInit ==
    /\ cfg \in Configs
    /\ state = BGP_FSM_IDLE
    /\ rfMap = SeqToSet(cfg.AfiSafiList)
    /\ capMap = {}
    /\ adjRibIn = EmptyRib
    /\ adjRibOut = EmptyRib
    /\ rib = EmptyTable
    /\ siblings = AllSiblings
    /\ importPolicies = ResolvePolicies(cfg.ImportPolicies, FullPolicyMap)
    /\ exportPolicies = ResolvePolicies(cfg.ExportPolicies, FullPolicyMap)
    /\ outgoing = 0
    /\ peerMsgCh = EmptyMailboxes
    /\ pc = "entry"
    /\ sendq = <<>>
    /\ ConcIdle
    /\ PolIdle
    /\ StatIdle
    /\ MeshIdle

RsSpec == RsInit /\ [][Next]_vars

\* the import chain of the peer rejects the path: the first policy that
\* matches it is a REJECT policy
ImportRejects(p) ==
    /\ ~p.withdraw
    /\ FirstMatch(importPolicies, p) # 0
    /\ importPolicies[FirstMatch(importPolicies, p)].action = ROUTE_TYPE_REJECT

\* C16: when a route-server client handles a PATH with announcements that its
\* import policy rejects, the shared RIB is given the list without them - the
\* empty list, which changes nothing, if there is no other path - and no
\* UPDATE with such a path is queued for `outgoing`
C16_ImportRejected ==
    [][(cfg.RouteServerClient /\ AtSelect
            /\ UNCHANGED <<state, rfMap, capMap, adjRibIn, siblings,
                           importPolicies, exportPolicies, pc, outgoing,
                           peerMsgCh>>)
        => \A pList \in SiblingPathLists :
              ((\E i \in 1..Len(pList) : ImportRejects(pList[i]))
                  /\ handlePeerMsgPath(pList))
              => LET rej == {pList[i] : i \in {j \in 1..Len(pList) :
                                                 ImportRejects(pList[j])}}
                     handed == SelectSeqBy(pList, SeqToSet(pList) \ rej)
                 IN  /\ rib' = ProcessPaths(rib, handed).rib
                     /\ \A p \in rej : p \notin rib'[p.rf] \ rib[p.rf]
                     /\ \A p \in rej :
                            p \notin SeqToSet(OutgoingPaths(sendq'))
                     /\ handed = <<>> =>
                            (rib' = rib /\ sendq' = <<>>
                                /\ adjRibOut' = adjRibOut)
      ]_vars

\* C16 witness: a route-server client in ESTABLISHED, with the policy that
\* rejects IPv6 in its import chain, has handled a PATH with an IPv6 and an
\* IPv4 announcement: the IPv4 path alone is in the shared RIB
C16_Witness ==
    /\ cfg.RouteServerClient /\ state = BGP_FSM_ESTABLISHED
    /\ importPolicies = <<PolRejectV6>>
    /\ rib[RF_IPv6_UC] = {}
    /\ rib[RF_IPv4_UC] = {MkPath(RF_IPv4_UC, Sibling1, FALSE, Sibling1)}
    /\ adjRibOut[RF_IPv6_UC] = NoPath
    /\ pc = "select"

\* C19: handling PEER-DELETED for a sibling of the directory removes it from
\* the directory and removes its paths from the shared RIB for every
\* configured family; a route-server client queues the resulting changes as
\* UPDATEs and nothing for a sibling, any other peer queues nothing for
\* `outgoing` and a PATH for the remaining siblings only if it is the
\* global-RIB pseudo-peer; PEER-DELETED for an address that is not in the
\* directory changes nothing; no message is put in the mailbox of a peer that
\* is not in the directory
C19_PeerDeleted ==
    [][/\ \A d \in AllSiblings :
            handleServerMsgPeerDeleted(d) =>
              IF d \in siblings
              THEN /\ siblings' = siblings \ {d}
                   /\ \A rf \in SeqToSet(configuredRFlist) :
                        rib'[rf] = {q \in rib[rf] : q.source # d}
                   /\ SiblingSends(sendq', PEER_MSG_PEER_DOWN) = {}
                   /\ \A i \in SiblingSends(sendq', PEER_MSG_PATH) :
                        sendq'[i].ch \in siblings \ {d}
                   /\ IF cfg.RouteServerClient
                      THEN /\ SiblingSends(sendq', PEER_MSG_PATH) = {}
                           /\ Len(OutgoingSends(sendq'))
                                = Len(OutgoingPaths(sendq'))
                           /\ \A p \in SeqToSet(OutgoingPaths(sendq')) :
                                \E rf \in Families :
                                    <<p>> = BestChange(rib, rib', rf)
                      ELSE /\ OutgoingSends(sendq') = <<>>
                           /\ adjRibOut' = adjRibOut
                           /\ SiblingSends(sendq', PEER_MSG_PATH) # {}
                                => cfg.isGlobalRib
              ELSE UNCHANGED <<sessionVars>>
       /\ \A s \in AllSiblings :
            peerMsgCh'[s] > peerMsgCh[s] => s \in siblings
      ]_vars

\* C19 witness: a route-server client in ESTABLISHED has handled PEER-DELETED
\* for Sibling1, whose IPv4 path was the best one: the path is gone from the
\* shared RIB and its withdrawal is about to be sent to the neighbor
C19_Witness ==
    /\ cfg.RouteServerClient /\ state = BGP_FSM_ESTABLISHED
    /\ siblings = {Sibling2}
    /\ rib = EmptyTable
    /\ OutgoingPaths(sendq) =
         <<MkPath(RF_IPv4_UC, Sibling1, TRUE, Sibling1)>>

\* ------------- AdvSpec: Spec with the record of what the neighbor was sent
\* the statistics that AdvSpec, like Spec, does not follow
AdvFrame == UNCHANGED <<counterVars, incoming>>

\* what the neighbor holds once the UPDATE m has been put on `outgoing`: an
\* announcement adds its NLRI, a withdrawal removes it
Advertise(adv, m) ==
    IF m.path.withdraw THEN adv \ {m.path.nlri} ELSE adv \union {m.path.nlri}

\* a channel send, recorded if it puts an UPDATE on `outgoing`
advChanSend ==
    /\ chanSend
    /\ advertised' = IF Head(sendq).ch = OUTGOING
                        /\ Head(sendq).msg.type = "UPDATE"
                     THEN Advertise(advertised, Head(sendq).msg)
                     ELSE advertised
    /\ AdvFrame

\* a state change ends the session, or begins the next: the neighbor holds
\* nothing of this peer
advStateChange ==
    /\ fsmStateChange
    /\ advertised' = {}
    /\ AdvFrame

AdvNext ==
    \/ loopEntry /\ StatFrame
    \/ advChanSend
    \/ fsmSendMessage /\ StatFrame
    \/ siblingReceive /\ StatFrame
    \/ advStateChange
    \/ fsmOpen /\ StatFrame
    \/ fsmRouteRefresh /\ StatFrame
    \/ fsmUpdate /\ StatFrame
    \/ fsmMessageError /\ StatFrame
    \/ siblingPath /\ StatFrame
    \/ siblingPeerDown /\ StatFrame
    \/ serverPeerAdded /\ StatFrame
    \/ serverPeerDeleted /\ StatFrame
    \/ serverPolicyUpdated /\ StatFrame
    \/ serverApi /\ StatFrame
    \/ loopDying /\ StatFrame
    \/ loopStop /\ StatFrame

AdvSpec == RsInit /\ [][AdvNext]_vars

\* ------------------------------------------- properties of AdvSpec
\* C23: a withdrawal is put on `outgoing` only for an NLRI that was announced
\* there earlier in the current session and has not been withdrawn there
\* since; a withdrawal by a sibling of a path that the import or the export
\* policy kept from the neighbor gives no UPDATE
C23_WithdrawOnlyAdvertised ==
    [][(outgoing' = outgoing + 1 /\ Head(sendq).msg.type = "UPDATE"
            /\ Head(sendq).msg.path.withdraw)
        => Head(sendq).msg.path.nlri \in advertised]_vars

\* ------------- QueueSpec: the session with `incoming` as the queue it is
FSM_MSG_STATE_CHANGE == "FSM_MSG_STATE_CHANGE"
FSM_MSG_BGP_MESSAGE == "FSM_MSG_BGP_MESSAGE"
MkFsmMsg(msgType, msgData) == [MsgType |-> msgType, MsgData |-> msgData]

\* the UPDATEs the remote sends: at most one route each
QueueBodies == {body \in UpdateBodies : Len(body.routes) <= 1}

\* a mutant: loop() keeps the channel it had
NewIncomingKept(old) == old

\* incoming := make(chan *fsmMsg, FSM_CHANNEL_LENGTH): the channel of the
\* new handler is empty, whatever was waiting in the old one
NewIncoming(old) == <<>>

\* the statistics that QueueSpec does not follow
QueueFrame == UNCHANGED <<counterVars, advertised>>

QueueInit ==
    /\ cfg = PlainConfig
    /\ state = BGP_FSM_IDLE
    /\ rfMap = SeqToSet(cfg.AfiSafiList)
    /\ capMap = {}
    /\ adjRibIn = EmptyRib
    /\ adjRibOut = EmptyRib
    /\ rib = EmptyTable
    /\ siblings = {Sibling1}
    /\ importPolicies = <<>>
    /\ exportPolicies = <<>>
    /\ outgoing = 0
    /\ peerMsgCh = EmptyMailboxes
    /\ pc = "entry"
    /\ sendq = <<>>
    /\ ConcIdle
    /\ PolIdle
    /\ StatIdle
    /\ MeshIdle

\* the top of loop(): the channels and the handler of the state are made
queueLoopEntry ==
    /\ loopEntry
    /\ incoming' = NewIncoming(incoming)
    /\ QueueFrame

\* the FSM handler of ESTABLISHED puts an UPDATE of the remote in `incoming`;
\* its receiving task runs until h.Wait(), so also once the state change has
\* been queued
fsmQueueUpdate ==
    \E body \in QueueBodies :
        /\ pc = "select" /\ ~cfg.isGlobalRib
        /\ state = BGP_FSM_ESTABLISHED
        /\ Len(incoming) < MaxQueue
        /\ incoming' = Append(incoming, MkFsmMsg(FSM_MSG_BGP_MESSAGE, body))
        /\ UNCHANGED <<sessionVars, counterVars, advertised>>
        /\ OtherFrame

\* the FSM handler reports the state its FSM goes to, once
fsmQueueStateChange ==
    \E nextState \in FsmNext(state) :
        /\ pc = "select" /\ ~cfg.isGlobalRib
        /\ \A i \in 1..Len(incoming) :
              incoming[i].MsgType # FSM_MSG_STATE_CHANGE
        /\ Len(incoming) < MaxQueue
        /\ incoming' =
             Append(incoming, MkFsmMsg(FSM_MSG_STATE_CHANGE, nextState))
        /\ UNCHANGED <<sessionVars, counterVars, advertised>>
        /\ OtherFrame

\* loop(): case e := <-incoming
loopIncoming ==
    /\ incoming # <<>>
    /\ LET e == Head(incoming)
       IN  IF e.MsgType = FSM_MSG_STATE_CHANGE
           THEN loopStateChange(e.MsgData)
           ELSE handleUpdate(e.MsgData)
    /\ incoming' = Tail(incoming)
    /\ QueueFrame

QueueNext ==
    \/ queueLoopEntry
    \/ fsmQueueUpdate
    \/ fsmQueueStateChange
    \/ loopIncoming
    \/ chanSend /\ StatFrame
    \/ fsmSendMessage /\ StatFrame
    \/ siblingReceive /\ StatFrame

QueueSpec == QueueInit /\ [][QueueNext]_vars

\* ------------------------------------------- properties of QueueSpec
\* C24: while the recorded state is not ESTABLISHED, Adj-RIB-In holds no
\* path of any configured family: an UPDATE that waits in `incoming` behind
\* the state change is not applied, in that state or in a later one
C24_AdjRibInEmptyOutsideEstablished ==
    state # BGP_FSM_ESTABLISHED
        => \A rf \in SeqToSet(configuredRFlist) : adjRibIn[rf] = NoPath

\* C24 witness: the state change that ended the session has been handled
\* with a valid announcement still behind it in `incoming`; loop() is about
\* to make the channel anew
C24_Witness ==
    /\ state = BGP_FSM_IDLE /\ pc = "entry" /\ sendq = <<>>
    /\ incoming # <<>>
    /\ Head(incoming).MsgType = FSM_MSG_BGP_MESSAGE
    /\ Head(incoming).MsgData.malformed = NoErr
    /\ Len(Head(incoming).MsgData.routes) = 1
    /\ ~Head(incoming).MsgData.routes[1].withdraw
    /\ adjRibIn = EmptyRib

\* ----------------- MeshSpec: the supervisors of a full mesh of three peers
\* the peers of the mesh: each is a sibling of the two others
MeshPeers == {NeighborAddress, Sibling1, Sibling2}

\* per peer: the messages waiting in its peerMsgCh, and the sibling sends its
\* supervisor has still to perform
MeshInit ==
    /\ mesh = [p \in MeshPeers |-> [peerMsgCh |-> 0, sendq |-> <<>>]]
    /\ SessionIdle
    /\ ConcIdle
    /\ PolIdle
    /\ StatIdle

MeshFrame == UNCHANGED <<sessionVars, concVars, polVars, statVars>>

\* the supervisor of p takes a valid UPDATE of its remote from its select:
\* sendPathsToSiblings, the sibling map being ranged over in some order
meshUpdate(p) ==
    /\ mesh[p].sendq = <<>>
    /\ \E order \in Orders(MeshPeers \ {p}) :
         mesh' = [mesh EXCEPT ![p].sendq =
                    [i \in 1..Len(order) |->
                        [ch |-> order[i], msgType |-> PEER_MSG_PATH]]]
    /\ MeshFrame

\* the supervisor of p takes the state change that leaves ESTABLISHED from
\* its select: the PEER_DOWN broadcast
meshStateChange(p) ==
    /\ mesh[p].sendq = <<>>
    /\ \E order \in Orders(MeshPeers \ {p}) :
         mesh' = [mesh EXCEPT ![p].sendq =
                    [i \in 1..Len(order) |->
                        [ch |-> order[i], msgType |-> PEER_MSG_PEER_DOWN]]]
    /\ MeshFrame

\* `s.peerMsgCh <- pm`: the send waits while the mailbox is full
meshSend(p) ==
    /\ mesh[p].sendq # <<>>
    /\ LET s == Head(mesh[p].sendq).ch
       IN  /\ mesh[s].peerMsgCh < MaxChan
           /\ mesh' = [mesh EXCEPT ![p].sendq = Tail(@),
                                   ![s].peerMsgCh = @ + 1]
    /\ MeshFrame

\* the supervisor of p, in its select, takes a message from its mailbox:
\* handlePeerMsg of a peer that is neither a route-server client nor the
\* global RIB sends nothing to a sibling
meshReceive(p) ==
    /\ mesh[p].sendq = <<>>
    /\ mesh[p].peerMsgCh > 0
    /\ mesh' = [mesh EXCEPT ![p].peerMsgCh = @ - 1]
    /\ MeshFrame

MeshNext ==
    \E p \in MeshPeers :
        \/ meshUpdate(p)
        \/ meshStateChange(p)
        \/ meshSend(p)
        \/ meshReceive(p)

\* a send that can be performed again and again is performed, and a select
\* with a message ready again and again takes it
MeshFairness ==
    \A p \in MeshPeers :
        /\ SF_vars(meshSend(p))
        /\ SF_vars(meshReceive(p))

MeshSpec == MeshInit /\ [][MeshNext]_vars /\ MeshFairness

\* C20: every fan-out of a supervisor completes - each of its messages is put
\* in the mailbox of its sibling and the supervisor is back in its select -
\* so that no supervisors stay blocked for ever on sends to each other's full
\* mailboxes
C20_FanOutCompletes ==
    \A p \in MeshPeers : (mesh[p].sendq # <<>>) ~> (mesh[p].sendq = <<>>)

\* ------------------------------------ ConcSpec: the tasks of one session
\* The supervisor, the connect loop, the FSM handler and the caller of Stop,
\* each at the grain of its blocking operations.  The route pipeline is left
\* out: pc, state, cfg and outgoing keep their meaning, the mailboxes of the
\* siblings are taken to be drained.
ConcInit ==
    /\ cfg \in Configs
    /\ state = BGP_FSM_IDLE
    /\ rfMap = SeqToSet(cfg.AfiSafiList)
    /\ capMap = {}
    /\ adjRibIn = EmptyRib
    /\ adjRibOut = EmptyRib
    /\ rib = EmptyTable
    /\ siblings = AllSiblings
    /\ importPolicies = <<>>
    /\ exportPolicies = <<>>
    /\ outgoing = 0
    /\ peerMsgCh = EmptyMailboxes
    /\ pc = "entry"
    /\ sendq = <<>>
    /\ dying = FALSE
    /\ connLoop = IF ~cfg.PassiveMode /\ ~cfg.isGlobalRib
                  THEN "select" ELSE "absent"
    /\ connCh = "open"
    /\ handler = "nil"
    /\ ticker = FALSE
    /\ stopPc = "idle"
    /\ passPc = "idle"
    /\ PolIdle
    /\ StatIdle
    /\ MeshIdle

\* a panic of any goroutine ends the process
Crashed == pc = "panic" \/ connLoop = "panic" \/ passPc = "panic"

\* what the tasks of ConcSpec never assign
ConcFrame ==
    UNCHANGED <<cfg, rfMap, capMap, adjRibIn, adjRibOut, rib, siblings,
                importPolicies, exportPolicies, peerMsgCh, sendq, polVars,
                statVars, mesh>>

\* the steps of the session's own tasks leave the caller of PassConn alone
TaskFrame == ConcFrame /\ UNCHANGED passPc

\* Stop: t.Kill(nil)
stopKill ==
    /\ ~Crashed /\ stopPc = "idle"
    /\ dying' = TRUE
    /\ stopPc' = "wait"
    /\ UNCHANGED <<state, outgoing, pc, connLoop, connCh, handler, ticker>>
    /\ TaskFrame

\* Stop: t.Wait() returns once loop() and connectLoop() have returned
stopWait ==
    /\ ~Crashed /\ stopPc = "wait"
    /\ pc = "done" /\ connLoop \in {"done", "absent"}
    /\ stopPc' = "returned"
    /\ UNCHANGED <<state, outgoing, pc, dying, connLoop, connCh, handler,
                   ticker>>
    /\ TaskFrame

\* loop(): the channels and the handler are made; in ACTIVE a peer that is
\* not passive goes on to send on getActiveCh
loopTop ==
    /\ ~Crashed /\ pc = "entry"
    /\ outgoing' = 0
    /\ handler' = IF cfg.isGlobalRib THEN "nil" ELSE "running"
    /\ pc' = IF ~cfg.isGlobalRib /\ state = BGP_FSM_ACTIVE /\ ~cfg.PassiveMode
             THEN "getActive" ELSE "select"
    /\ UNCHANGED <<state, dying, connLoop, connCh, ticker, stopPc>>
    /\ TaskFrame

\* peer.getActiveCh <- struct{}{} meets case <-peer.getActiveCh: the channel
\* has no buffer, the send waits for the connect loop to be in its select;
\* the ticker the connect loop makes after connect() runs from here on
getActiveSend ==
    /\ ~Crashed /\ pc = "getActive"
    /\ connLoop = "select"
    /\ pc' = "select"
    /\ connLoop' = "connect"
    /\ ticker' = TRUE
    /\ UNCHANGED <<state, outgoing, dying, connCh, handler, stopPc>>
    /\ TaskFrame

\* connectLoop: case <-peer.t.Dying()
connectLoopDying ==
    /\ ~Crashed /\ connLoop = "select" /\ dying
    /\ connLoop' = "done"
    /\ ticker' = FALSE
    /\ UNCHANGED <<state, outgoing, pc, dying, connCh, handler, stopPc>>
    /\ TaskFrame

\* connectLoop: case <-ticker.C
connectLoopTick ==
    /\ ~Crashed /\ connLoop = "select" /\ ticker
    /\ connLoop' = "connect"
    /\ UNCHANGED <<state, outgoing, pc, dying, connCh, handler, ticker,
                   stopPc>>
    /\ TaskFrame

\* connect(): nothing is done unless the recorded state is ACTIVE
connectCheck ==
    /\ ~Crashed /\ connLoop = "connect"
    /\ connLoop' = IF state = BGP_FSM_ACTIVE THEN "dial" ELSE "select"
    /\ UNCHANGED <<state, outgoing, pc, dying, connCh, handler, ticker,
                   stopPc>>
    /\ TaskFrame

\* connect(): net.DialTimeout succeeds or fails
connectDial ==
    /\ ~Crashed /\ connLoop = "dial"
    /\ \E ok \in BOOLEAN : connLoop' = IF ok THEN "push" ELSE "select"
    /\ UNCHANGED <<state, outgoing, pc, dying, connCh, handler, ticker,
                   stopPc>>
    /\ TaskFrame

\* connect(): peer.connCh <- conn; the channel has no buffer, the send waits
\* for a running FSM handler to take the connection, and panics once the
\* channel is closed
connChSend ==
    /\ ~Crashed /\ connLoop = "push"
    /\ IF connCh = "closed"
       THEN connLoop' = "panic"
       ELSE handler = "running" /\ connLoop' = "select"
    /\ UNCHANGED <<state, outgoing, pc, dying, connCh, handler, ticker,
                   stopPc>>
    /\ TaskFrame

\* loop(): FSM_MSG_STATE_CHANGE; h.Wait() ends the handler of the old state
loopStateChangeStep ==
    /\ ~Crashed /\ pc = "select" /\ handler = "running"
    /\ \E nextState \in FsmNext(state) : state' = nextState
    /\ handler' = "stopped"
    /\ pc' = "entry"
    /\ UNCHANGED <<outgoing, dying, connLoop, connCh, ticker, stopPc>>
    /\ TaskFrame

\* loop(): case <-peer.t.Dying(): close(peer.connCh)
loopDyingClose ==
    /\ ~Crashed /\ pc = "select" /\ dying
    /\ connCh' = "closed"
    /\ pc' = "cease"
    /\ UNCHANGED <<state, outgoing, dying, connLoop, handler, ticker, stopPc>>
    /\ TaskFrame

\* loop(): peer.outgoing <- the CEASE notification
loopDyingCease ==
    /\ ~Crashed /\ pc = "cease"
    /\ outgoing < MaxChan
    /\ outgoing' = outgoing + 1
    /\ pc' = "stop"
    /\ UNCHANGED <<state, dying, connLoop, connCh, handler, ticker, stopPc>>
    /\ TaskFrame

\* loop(): h.Stop() and return; h is nil in the global-RIB pseudo-peer
loopDyingStop ==
    /\ ~Crashed /\ pc = "stop"
    /\ IF handler = "nil"
       THEN pc' = "panic" /\ handler' = handler
       ELSE pc' = "done" /\ handler' = "stopped"
    /\ UNCHANGED <<state, outgoing, dying, connLoop, connCh, ticker, stopPc>>
    /\ TaskFrame

\* the FSM handler of ESTABLISHED takes a message from `outgoing`
handlerSend ==
    /\ ~Crashed /\ handler = "running" /\ state = BGP_FSM_ESTABLISHED
    /\ outgoing > 0
    /\ outgoing' = outgoing - 1
    /\ UNCHANGED <<state, pc, dying, connLoop, connCh, handler, ticker,
                   stopPc>>
    /\ TaskFrame

\* the server's listener has accepted a connection of the neighbor and calls
\* PassConn
passConnCall ==
    /\ ~Crashed /\ passPc = "idle" /\ ~cfg.isGlobalRib
    /\ passPc' = "push"
    /\ UNCHANGED <<state, outgoing, pc, dying, connLoop, connCh, handler,
                   ticker, stopPc>>
    /\ ConcFrame

\* PassConn: peer.connCh <- conn; as in connect() the send waits for a running
\* FSM handler and panics once the channel is closed
passConnSend ==
    /\ ~Crashed /\ passPc = "push"
    /\ IF connCh = "closed"
       THEN passPc' = "panic"
       ELSE handler = "running" /\ passPc' = "idle"
    /\ UNCHANGED <<state, outgoing, pc, dying, connLoop, connCh, handler,
                   ticker, stopPc>>
    /\ ConcFrame

ConcNext ==
    \/ stopKill
    \/ stopWait
    \/ loopTop
    \/ getActiveSend
    \/ connectLoopDying
    \/ connectLoopTick
    \/ connectCheck
    \/ connectDial
    \/ connChSend
    \/ loopStateChangeStep
    \/ loopDyingClose
    \/ loopDyingCease
    \/ loopDyingStop
    \/ handlerSend
    \/ passConnCall
    \/ passConnSend

\* every task runs when it can; a select whose Dying case is ready takes it
\* in the end, however often its other cases are ready
ConcFairness ==
    /\ WF_vars(stopWait)
    /\ WF_vars(loopTop)
    /\ WF_vars(getActiveSend)
    /\ SF_vars(connectLoopDying)
    /\ WF_vars(connectCheck)
    /\ WF_vars(connectDial)
    /\ WF_vars(connChSend)
    /\ SF_vars(loopDyingClose)
    /\ WF_vars(loopDyingCease)
    /\ WF_vars(loopDyingStop)
    /\ WF_vars(passConnSend)

ConcSpec == ConcInit /\ [][ConcNext]_vars /\ ConcFairness

\* C5: once the kill signal is raised, the supervisor stops the FSM handler
\* and returns, the connect loop exits and Stop returns: no task of the
\* session stays blocked or running for ever
C5_KillTerminates ==
    dying ~> (stopPc = "returned" /\ pc = "done" /\ handler # "running"
              /\ connLoop \in {"done", "absent"})

\* C6: the send of the token on getActiveCh never waits: whenever the
\* supervisor is at it, it can complete it, whatever the connect loop is doing
C6_TokenSendNeverWaits == pc = "getActive" => ENABLED getActiveSend

\* C21: no task sends on connCh once the supervisor has closed it: neither the
\* connect loop, which may be in its dial or about to push the connection it
\* dialed when the kill signal is handled, nor a caller of PassConn
C21_NoSendOnClosedConnCh == connLoop # "panic" /\ passPc # "panic"

====
